---- MODULE Spec2Model ----
(***************************************************************************)
(* Signing / simulation / submission core of the arbitrage bot.            *)
(*                                                                         *)
(* Three state machines share this module, each with its own               *)
(* specification:                                                          *)
(*   AutoSpec  (and AutoLiveSpec, the same with fairness)                  *)
(*             one Autosubmitter::submit_and_monitor_with_rebump session   *)
(*             against an execution node that includes transactions;       *)
(*   SimSpec   one Simulator::simulate_signed_bundle call against a        *)
(*             forked node with snapshot / revert, or one                  *)
(*             Simulator::autosubmit_signed_bundle call;                   *)
(*   SweepSpec one nonce sweep                                             *)
(*             (Simulator::simulate_unsigned_bundle_try_nonces_with_scorer)*)
(*             with its spawned offset tasks.                              *)
(* While one machine runs, the variables of the other two stay at their    *)
(* idle values.                                                            *)
(*                                                                         *)
(* Integer widths.  TLC's integers are 32 bits wide, the program's are u64,*)
(* u128, i128 and U256.  The 128-bit types are modelled with WidthBits     *)
(* bits: U128Max = 2^WidthBits - 1, I128Max = 2^(WidthBits-1) - 1,         *)
(* I128Min = -2^(WidthBits-1); saturation and the wrapping `as` cast are   *)
(* those of the Rust operations at that width.  Amounts of the literal     *)
(* scenarios are given in scaled units (stated where they are defined).    *)
(* An f64 is modelled with a significand of MantissaBits bits.             *)
(*                                                                         *)
(* Every await of the code (a send, a receipt query, a signer call, a      *)
(* sleep, the POST to the relay and the reading of its response) is a step *)
(* of its own, so that the node and the other tasks can act between any    *)
(* two of them.  A panic (U256::as_u128 of a value above u128::MAX, an     *)
(* arithmetic overflow in a build with overflow checks) ends the call or   *)
(* the task it happens in.                                                 *)
(***************************************************************************)
EXTENDS Integers, Sequences, FiniteSets, TLC

VARIABLES
    \* ---- Autosubmitter session (src/src/autosubmit.rs) ----
    cfg,            \* AutosubmitConfig of the Autosubmitter
    args,           \* arguments of the call: unsigned_txs, signer, relay, expected_pnl
    signed_blob,    \* `signed_blob`: the raw signed transactions currently kept
    tx_hashes,      \* `tx_hashes`: the tracked transaction hashes
    receipts_json,  \* `receipts_json`: receipts collected by the polls
    attempts,       \* `attempts`: polls of the current phase
    bump_idx,       \* `bump_idx` of the re-bid loop
    retry_count,    \* `retry_count` of the re-broadcast loop
    bumped_signed_blob, \* `bumped_signed_blob` of the bump attempt under way
    cursor,         \* position of the running `for` loop in its list
    apc,            \* position of the session
    outcome,        \* what the call returned ("none" while it runs)
    nodePool,       \* hashes of the transactions the node has (may get included)
    nodeReceipts,   \* hashes that have a receipt on the node
    hist,           \* history of the session (what was sent, signed, polled)
    \* ---- Simulator (src/src/sim.rs) ----
    node,           \* the forked execution node: chain, base fee, snapshots, costs it reports
    rpc,            \* `rpc` of the Simulator: the node's URL
    task,           \* per offset task (or direct call): its locals and position
    sweepArgs,      \* arguments of the nonce sweep, and the build profile
    offset,         \* `offset` of the spawning loop
    permits,        \* free permits of the semaphore `sem`
    results,        \* `results` of the sweep
    mpc,            \* position of the sweep's own future
    collected,      \* offsets already taken from `futs`, in the order taken
    best,           \* `best` of choose_best_nonce_strategy, once it returned
    \* ---- Remote signer (src/src/signer.rs, src/src/crypto/der.rs) ----
    sg,             \* one signing call: its inputs, position and result
    \* ---- Relay client (src/src/executor.rs) ----
    rl,             \* one relay call: the client, the request, the result
    \* ---- Scorers (src/src/sim.rs) ----
    sc,             \* one Scorer::score call: its inputs, position and result
    scanner         \* one Scanner (src/src/scanner.rs): its fields and last result

autoVars == <<cfg, args, signed_blob, tx_hashes, receipts_json, attempts,
              bump_idx, retry_count, bumped_signed_blob, cursor, apc, outcome,
              nodePool, nodeReceipts, hist>>

simVars == <<node, rpc, task, sweepArgs, offset, permits, results, mpc, collected, best>>

libVars == <<sg, rl, sc, scanner>>

vars == <<autoVars, simVars, libVars>>

(***************************************************************************)
(* Bounds of the model and scaled widths                                   *)
(***************************************************************************)
\* Bits of the modelled u128 / i128.
WidthBits == 24
\* History counters stop counting here (the session itself is not stopped).
MaxCount == 4
\* Largest max_bumps explored.
MaxBumps == 3
\* Largest max_retries explored.
MaxRetries == 2

\* Largest nonce_range explored: offset tasks 0 .. MaxNonceRange - 1.
MaxNonceRange == 3
\* Largest concurrency explored.
MaxConcurrency == 2
\* transactions signed by one sweep (bundle length times nonce_range)
MaxSweepTxs == 4
\* nonce_range times concurrency of one sweep
MaxSweepWork == 6

RECURSIVE Pow(_, _)
Pow(b, e) == IF e = 0 THEN 1 ELSE b * Pow(b, e - 1)

U128Max == Pow(2, WidthBits) - 1
I128Max == Pow(2, WidthBits - 1) - 1
I128Min == -Pow(2, WidthBits - 1)

Min(a, b) == IF a < b THEN a ELSE b
Max(a, b) == IF a > b THEN a ELSE b

\* Option<T>
None == [some |-> FALSE, val |-> 0]
Some(v) == [some |-> TRUE, val |-> v]
UnwrapOr(o, d) == IF o.some THEN o.val ELSE d

\* u128::saturating_add, u128::saturating_mul
USatAdd(a, b) == IF a > U128Max - b THEN U128Max ELSE a + b
USatMul(a, b) == IF a = 0 \/ b = 0 THEN 0
                 ELSE IF a > U128Max \div b THEN U128Max ELSE a * b
\* i128::saturating_add, i128::saturating_sub
ISatAdd(a, b) == Max(I128Min, Min(I128Max, a + b))
ISatSub(a, b) == Max(I128Min, Min(I128Max, a - b))
\* `x as i128` for x: u128 (two's complement reinterpretation)
U128AsI128(x) == IF x > I128Max THEN x - (U128Max + 1) ELSE x

(***************************************************************************)
(* Typed transactions, signing and hashing                                 *)
(*                                                                         *)
(* A TypedTransaction is a record of the fields the core reads or writes.  *)
(* The raw bytes rlp_signed returns are the RLP of the transaction with    *)
(* its signature: an injective image of the signed fields, so two calls on *)
(* equal transactions give equal bytes (deterministic ECDSA) and equal     *)
(* keccak256 hashes, and different transactions give different ones.  What *)
(* a Signer returns depends on the implementation (SignTyped).             *)
(***************************************************************************)
\* gas limit assumed for a request without one
DefaultGasLimit == 21000

Eip1559Tx(nonce, gas, prio, fee) ==
    [variant |-> "Eip1559", nonce |-> nonce, gas |-> gas, gas_price |-> None,
     max_priority_fee_per_gas |-> prio, max_fee_per_gas |-> fee]
LegacyTx(nonce, gas, price) ==
    [variant |-> "Legacy", nonce |-> nonce, gas |-> gas, gas_price |-> price,
     max_priority_fee_per_gas |-> None, max_fee_per_gas |-> None]
Eip2930Tx(nonce, gas, price) ==
    [variant |-> "Eip2930", nonce |-> nonce, gas |-> gas, gas_price |-> price,
     max_priority_fee_per_gas |-> None, max_fee_per_gas |-> None]

\* TypedTransaction::rlp_signed with the signer's signature
RlpSigned(tx) == [rlp |-> tx]
\* vec![]: raw bytes that hold no transaction
EmptyRaw ==
    [rlp |-> [variant |-> "none", nonce |-> None, gas |-> None, gas_price |-> None,
              max_priority_fee_per_gas |-> None, max_fee_per_gas |-> None]]
\* keccak256 of the raw bytes
Keccak256(raw) == [keccak |-> raw]

SeqMap(Op(_), s) == [i \in 1..Len(s) |-> Op(s[i])]
Range(s) == {s[i] : i \in 1..Len(s)}

(***************************************************************************)
(* Autosubmitter: fee scaling and kill switches                            *)
(***************************************************************************)
\* bump_factor.powi(bump_idx + 1) for the k-th bump (k = bump_idx + 1), kept as
\* the exact fraction num^k / den^k: bump_factor is a dyadic fraction num/den
\* (1.25 = 5/4), whose powers an f64 holds exactly at the sizes modelled.
Factor(k) == [num |-> Pow(cfg.bump_factor.num, k), den |-> Pow(cfg.bump_factor.den, k)]

\* Bits of the significand of the modelled f64 (53 of 128 bits in the program,
\* MantissaBits of WidthBits here).
MantissaBits == 10

RECURSIVE BitLen(_)
\* number of bits of n
BitLen(n) == IF n = 0 THEN 0 ELSE 1 + BitLen(n \div 2)

\* round-to-nearest, ties-to-even, of q + (a remainder): `above` says the
\* remainder is more than half a unit, `tie` that it is exactly half
RoundEven(q, above, tie) == IF above \/ (tie /\ q % 2 = 1) THEN q + 1 ELSE q

\* `price as f64` for price: u128, as the value of the f64: the nearest number
\* with MantissaBits significant bits
ToF64(price) ==
    IF BitLen(price) <= MantissaBits THEN price
    ELSE LET unit == Pow(2, BitLen(price) - MantissaBits)
             r == price % unit
         IN  RoundEven(price \div unit, 2 * r > unit, 2 * r = unit) * unit

\* `(f * factor) as u128` for an integral f64 f and factor = num/den (den a
\* power of two): the product rounded to MantissaBits significant bits, then
\* truncated toward zero and saturated at the largest u128
MulToU128(f, factor) ==
    LET whole == (f \div factor.den) * factor.num + ((f % factor.den) * factor.num) \div factor.den
        frac == ((f % factor.den) * factor.num) % factor.den    \* over factor.den
        len == BitLen(whole)
    IN  IF len > MantissaBits
        THEN LET unit == Pow(2, len - MantissaBits)
                 r == whole % unit
             IN  Min(U128Max,
                     RoundEven(whole \div unit, 2 * r > unit \/ (2 * r = unit /\ frac > 0),
                               2 * r = unit /\ frac = 0) * unit)
        ELSE LET fbits == Pow(2, MantissaBits - len)
                 q == whole * fbits + (frac * fbits) \div factor.den
                 r == (frac * fbits) % factor.den
             IN  RoundEven(q, 2 * r > factor.den, 2 * r = factor.den) \div fbits

\* ((price as f64) * factor) as u128
ScalePrice(price, factor) == MulToU128(ToF64(price), factor)

\* What stands for the panic of a checked conversion where a u128 is expected
\* (no u128 is negative).
U128Panic == -1

\* U256::as_u128: the value when it fits a u128, a panic ("Integer overflow
\* when casting to u128") otherwise
AsU128(x) == IF x > U128Max THEN U128Panic ELSE x

\* gas_limit and base price the kill switch reads from one transaction: the
\* fields are U256, read through as_u128
GasLimitOf(tx) == AsU128(UnwrapOr(tx.gas, DefaultGasLimit))
BasePriceOf(tx) ==
    CASE tx.variant = "Eip1559" ->
           IF tx.max_fee_per_gas.some THEN AsU128(tx.max_fee_per_gas.val) ELSE 0
      [] tx.variant = "Legacy"  ->
           IF tx.gas_price.some THEN AsU128(tx.gas_price.val) ELSE 0
      [] OTHER                  -> 0

\* faulty variant: the gas limit is left out of the product
TxWorstCaseNoGas(tx, factor) ==
    IF tx.variant \in {"Eip1559", "Legacy"}
    THEN IF GasLimitOf(tx) = U128Panic \/ BasePriceOf(tx) = U128Panic THEN U128Panic
         ELSE ScalePrice(BasePriceOf(tx), factor)
    ELSE 0

\* one iteration of the loop `for tx in unsigned.iter()` of the kill switch:
\* what it adds to worst_case_cost, or the panic of one of its conversions
TxWorstCase(tx, factor) ==
    IF tx.variant \in {"Eip1559", "Legacy"}
    THEN IF GasLimitOf(tx) = U128Panic \/ BasePriceOf(tx) = U128Panic THEN U128Panic
         ELSE USatMul(GasLimitOf(tx), ScalePrice(BasePriceOf(tx), factor))
    ELSE USatMul(DefaultGasLimit, 0)

RECURSIVE WorstCaseFrom(_, _, _, _)
WorstCaseFrom(unsigned, factor, i, acc) ==
    IF i > Len(unsigned) THEN acc
    ELSE IF TxWorstCase(unsigned[i], factor) = U128Panic THEN U128Panic
    ELSE WorstCaseFrom(unsigned, factor, i + 1,
                       USatAdd(acc, TxWorstCase(unsigned[i], factor)))

\* worst_case_cost of one bump attempt, or U128Panic when the loop panicked
WorstCaseCost(unsigned, factor) == WorstCaseFrom(unsigned, factor, 1, 0)

\* if let Some(max_gas) = kill_switch_max_gas_wei { if worst_case_cost > max_gas
GasKillSwitch(worst_case_cost) ==
    cfg.kill_switch_max_gas_wei.some /\ worst_case_cost > cfg.kill_switch_max_gas_wei.val

RECURSIVE TotalPnlFrom(_, _, _)
TotalPnlFrom(pnls, i, acc) ==
    IF i > Len(pnls) THEN acc ELSE TotalPnlFrom(pnls, i + 1, ISatAdd(acc, pnls[i]))
\* total_pnl
TotalPnl(pnls) == TotalPnlFrom(pnls, 1, 0)

\* projected_loss
ProjectedLoss(worst_case_cost, pnls) ==
    ISatSub(U128AsI128(worst_case_cost), TotalPnl(pnls))

\* faulty variant: an absent expected PnL counts as a PnL of zero
LossKillSwitchZeroPnl(worst_case_cost) ==
    /\ cfg.kill_switch_max_loss_wei.some
    /\ ProjectedLoss(worst_case_cost,
                     IF args.expected_pnl.some THEN args.expected_pnl.val ELSE <<>>)
           > cfg.kill_switch_max_loss_wei.val

\* if let Some(pnls) = expected_pnl { ... if let Some(max_loss) = ... { if projected_loss > max_loss
LossKillSwitch(worst_case_cost) ==
    /\ args.expected_pnl.some
    /\ cfg.kill_switch_max_loss_wei.some
    /\ ProjectedLoss(worst_case_cost, args.expected_pnl.val) > cfg.kill_switch_max_loss_wei.val

\* what stands for a bump that panicked instead of giving a transaction
TxPanic == [variant |-> "panic"]

\* the bumped clone of one unsigned transaction, or TxPanic when one of the
\* conversions as_u128 of lines 174, 176, 186 panics
BumpTx(tx, factor) ==
    CASE tx.variant = "Eip1559" ->
           IF \/ AsU128(UnwrapOr(tx.max_fee_per_gas, 0)) = U128Panic
              \/ AsU128(UnwrapOr(tx.max_priority_fee_per_gas, 0)) = U128Panic
           THEN TxPanic
           ELSE [tx EXCEPT
                    !.max_fee_per_gas = Some(ScalePrice(UnwrapOr(tx.max_fee_per_gas, 0), factor)),
                    !.max_priority_fee_per_gas =
                        Some(ScalePrice(UnwrapOr(tx.max_priority_fee_per_gas, 0), factor))]
      [] tx.variant = "Legacy" ->
           IF AsU128(UnwrapOr(tx.gas_price, 0)) = U128Panic
           THEN TxPanic
           ELSE [tx EXCEPT !.gas_price = Some(ScalePrice(UnwrapOr(tx.gas_price, 0), factor))]
      [] OTHER -> tx

\* what stands for the panic of a u64 division by zero
DivideByZero == -1
\* Line 95: max_attempts = (max_wait_secs / poll_interval_secs) as usize, a
\* division of two u64: it panics when poll_interval_secs is 0
MaxAttempts ==
    IF cfg.poll_interval_secs = 0
    THEN DivideByZero
    ELSE cfg.max_wait_secs \div cfg.poll_interval_secs

\* history counters saturate, the session's own counters do not
Count(n) == Min(MaxCount, n + 1)

(***************************************************************************)
(* Simulator: the forked node and the offset tasks at rest                 *)
(***************************************************************************)
TaskIds == 0..(MaxNonceRange - 1)

\* node state a snapshot saves and a revert restores
EmptyState == [chain |-> <<>>, base_fee |-> None]

\* locals of one offset task (of the sweep) or of one direct call
IdleTask ==
    [pc |-> "unspawned",
     spawned |-> FALSE,        \* a task of the sweep (it holds a permit)
     handed |-> <<>>,          \* transactions handed to the signer, in order
     signed_blob |-> <<>>,     \* `signed_blob` / `signed_raw_txs`
     bf |-> None,              \* `set_next_block_base_fee`
     snap_id |-> None,         \* `snap_id`
     i |-> 1,                  \* position in `signed_raw_txs`
     sent |-> 0,               \* send_raw_transaction calls made
     receipts |-> <<>>,        \* `results` of simulate_signed_bundle
     direct_receipts |-> <<>>, \* `receipts` of autosubmit_signed_bundle
     ret |-> "none",           \* what simulate_signed_bundle / the task returned
     reverts |-> {},           \* snapshot ids given to evm_revert
     at_snapshot |-> EmptyState,   \* node state when the snapshot was taken
     score |-> 0]

\* no signing call and no relay call is under way
LibIdle ==
    /\ sg = [pc |-> "idle"] /\ rl = [pc |-> "idle"] /\ sc = [pc |-> "idle"]
    /\ scanner = [pc |-> "idle"]

SimIdle ==
    /\ node = [chain |-> <<>>, base_fee |-> None, snaps |-> {}, next_id |-> 1, costs |-> {}]
    /\ rpc = "http://127.0.0.1:8545"
    /\ task = [t \in TaskIds |-> IdleTask]
    /\ sweepArgs = [nonce_range |-> 0]
    /\ offset = 0 /\ permits = 0 /\ results = <<>> /\ mpc = "idle" /\ collected = <<>>
    /\ best = None

(***************************************************************************)
(* Autosubmitter: inputs explored                                          *)
(***************************************************************************)
\* Two EIP-1559 transactions, gas_limit 21000, max_fee 10^11 wei.  Prices and
\* costs of this bundle are in units of 10^11/64 = 1 562 500 000 wei, so that
\* max_fee = 64 and 64 * 1.25^k is the exact bumped fee for k = 1, 2, 3.
BundlePair ==
    <<Eip1559Tx(Some(0), Some(21000), Some(1), Some(64)),
      Eip1559Tx(Some(1), Some(21000), Some(1), Some(64))>>
\* A Legacy transaction without a gas limit and one of a variant the
\* Autosubmitter does not bump.
BundleMixed ==
    <<LegacyTx(Some(0), None, Some(3)), Eip2930Tx(Some(1), Some(5), Some(7))>>
\* One cheap EIP-1559 transaction.
BundleSmall == <<Eip1559Tx(Some(0), Some(2), Some(4), Some(8))>>
\* One transaction whose gas_limit * max_fee does not fit the unsigned width.
BundleHuge ==
    <<Eip1559Tx(Some(0), Some(Pow(2, WidthBits \div 2)), None,
                Some(Pow(2, WidthBits - (WidthBits \div 2))))>>
\* The same transaction twice.
BundleTwice == <<BundleSmall[1], BundleSmall[1]>>
\* One transaction whose max fee needs one bit more than the significand of
\* an f64 has.
BundleWide == <<Eip1559Tx(Some(0), Some(1), Some(1), Some(Pow(2, MantissaBits) + 1))>>
\* A gas limit (a U256) that does not fit a u128.
BundleOverGas == <<Eip1559Tx(Some(0), Some(U128Max + 1), Some(1), Some(1))>>
\* A gas price that does not fit a u128.
BundleOverPrice == <<LegacyTx(Some(0), Some(1), Some(U128Max + 1))>>
\* A second transaction whose priority fee does not fit a u128.
BundleOverTip ==
    <<Eip1559Tx(Some(0), Some(1), Some(1), Some(1)),
      Eip1559Tx(Some(1), Some(1), Some(U128Max + 1), Some(1))>>
BundlesOver == {BundleOverGas, BundleOverPrice, BundleOverTip}
Bundles ==
    {BundlePair, BundleMixed, BundleSmall, BundleHuge, BundleTwice, BundleWide, <<>>}
        \cup BundlesOver

\* 10^15 wei in the unit of BundlePair
KillSwitchGasPair == 640000
\* a limit BundleSmall crosses at its third bump
KillSwitchGasSmall == 25
\* an expected PnL BundleSmall's cost crosses at its second bump
PnlSmall == 22
\* a limit one wei below the worst-case cost of BundleWide at factor 1.0
KillSwitchGasWide == Pow(2, MantissaBits)

Configs ==
    [max_retries : 0..MaxRetries,
     poll_interval_secs : {0, 1, 2, 3},
     max_wait_secs : {2},
     bump_factor : {[num |-> 5, den |-> 4], [num |-> 1, den |-> 1]},
     max_bumps : 0..MaxBumps,
     kill_switch_max_gas_wei : {None, Some(KillSwitchGasSmall), Some(KillSwitchGasPair),
                                Some(KillSwitchGasWide)},
     kill_switch_max_loss_wei : {None, Some(0)}]

\* AutosubmitConfig::default() apart from the fields the path reads
PlainConfigs ==
    {c \in Configs : /\ c.bump_factor = [num |-> 5, den |-> 4]
                     /\ c.max_bumps \in {0, MaxBumps}
                     /\ c.kill_switch_max_gas_wei = None
                     /\ c.kill_switch_max_loss_wei = None}

\* The implementations of Signer the crate has: RemoteBasedSigner and
\* BasicEnvSigner return rlp_signed of the transaction, InMemorySigner
\* returns no bytes.
Signers == {"RemoteBasedSigner", "InMemorySigner"}

\* sign_typed_transaction of the signer handed to the call
SignTyped(signer, tx) == IF signer = "InMemorySigner" THEN EmptyRaw ELSE RlpSigned(tx)
\* InMemorySigner always returns Ok; the other signers may fail
SignerMayFail(signer) == signer # "InMemorySigner"

CallArgs ==
    [bundle : Bundles,
     has_unsigned : BOOLEAN,
     has_signer : BOOLEAN,
     signer : Signers,
     relay_configured : BOOLEAN,
     expected_pnl : {None, Some(<<PnlSmall>>)}]

\* if let (Some(unsigned), Some(signer_arc)) = (unsigned_txs, signer.as_ref())
CanRebid(a) == a.has_unsigned /\ a.has_signer

\* no loss kill switch, no expected PnL, one retry, a poll every second
NoLossSwitch(c, a) ==
    /\ c.kill_switch_max_loss_wei = None /\ a.expected_pnl = None
    /\ c.max_retries = 1 /\ c.poll_interval_secs = 1

\* the signed bundle handed to the call: the unsigned transactions, signed
InitialBlob(a) == SeqMap(LAMBDA tx : SignTyped(a.signer, tx), a.bundle)

\* no kill switch and no expected PnL, bump_factor 1.25
NoSwitches(c, a) ==
    /\ c.kill_switch_max_gas_wei = None /\ c.kill_switch_max_loss_wei = None
    /\ a.expected_pnl = None /\ c.bump_factor = [num |-> 5, den |-> 4]

\* The session's inputs.  A call that cannot re-bid (submit_and_monitor, or no
\* signer) never reads the bump parameters, the kill switches or the PnL; they
\* are then left at one value each.  A call that can re-bid reads max_retries
\* only to compare it with 0 (line 113).  The kill switches and the PnL are
\* explored with the bundles they are about and with a poll every second;
\* BundleTwice, BundleWide, the bundles with a field beyond a u128 and the
\* InMemorySigner without them.
AutoInputs ==
    {<<c, a>> \in Configs \X CallArgs :
        \/ /\ CanRebid(a) /\ a.relay_configured /\ c.max_retries \in {0, 1}
           /\ a.signer = "RemoteBasedSigner"
           /\ c.kill_switch_max_gas_wei # Some(KillSwitchGasWide)
           /\ c.poll_interval_secs = 1 \/ NoSwitches(c, a)
           /\ a.bundle \in {BundlePair, BundleMixed, BundleSmall, BundleHuge, <<>>}
        \/ /\ CanRebid(a) /\ a.relay_configured /\ NoLossSwitch(c, a) /\ c.max_bumps <= 1
           /\ \/ /\ a.signer = "InMemorySigner" /\ a.bundle = BundlePair
                 /\ c.kill_switch_max_gas_wei = None
              \/ /\ a.signer = "RemoteBasedSigner" /\ a.bundle = BundleTwice
                 /\ c.kill_switch_max_gas_wei = None
              \/ /\ a.signer = "RemoteBasedSigner" /\ a.bundle = BundleWide
                 /\ c.kill_switch_max_gas_wei \in {None, Some(KillSwitchGasWide)}
              \/ /\ a.signer = "RemoteBasedSigner" /\ a.bundle \in BundlesOver
                 /\ c.kill_switch_max_gas_wei = None /\ c.max_bumps = 1
                 /\ c.bump_factor = [num |-> 5, den |-> 4]
        \/ /\ ~CanRebid(a) /\ c \in PlainConfigs /\ a.expected_pnl = None
           /\ a.signer = "RemoteBasedSigner"
           /\ a.bundle \in {BundlePair, BundleMixed, BundleSmall, BundleTwice, <<>>}}

\* The inputs of the sessions whose termination is explored: one or two
\* transactions, on both resubmission paths.
AutoLiveInputs ==
    {in \in AutoInputs :
        /\ NoSwitches(in[1], in[2]) /\ in[1].poll_interval_secs = 1
        /\ in[1].max_bumps <= 1 /\ in[1].max_retries <= 1
        /\ in[2].signer = "RemoteBasedSigner" /\ in[2].relay_configured
        /\ in[2].has_unsigned = in[2].has_signer
        /\ in[2].bundle \in {BundleSmall, BundleTwice}}

EmptyHist ==
    [relayCalls |-> 0,         \* submit_flashbots_bundle calls
     relayFailed |-> FALSE,    \* the relay call returned an error
     directSends |-> <<>>,     \* raw transactions of the first direct broadcast
     signed |-> {},            \* <<k, i, tx>>: tx signed as position i of bump k
     broadcast |-> {},         \* <<k, raw>>: raw broadcast by bump k
     resent |-> {},            \* raw transactions re-sent by re-broadcast rounds
     rounds |-> 0,             \* re-broadcast rounds
     polls |-> 0,              \* polls of the whole session
     polledSinceBump |-> FALSE,\* a poll ran after the last bump's broadcast
     phaseSecs |-> 0,          \* seconds slept at line 244 since attempts was 0
     stoppedAt |-> 0]          \* bump attempt at which the session was aborted

AutoIdle ==
    /\ cfg = [max_retries |-> 0] /\ args = [bundle |-> <<>>]
    /\ signed_blob = <<>> /\ tx_hashes = <<>> /\ receipts_json = <<>>
    /\ attempts = 0 /\ bump_idx = 0 /\ retry_count = 0
    /\ bumped_signed_blob = <<>> /\ cursor = 1
    /\ apc = "idle" /\ outcome = "none"
    /\ nodePool = {} /\ nodeReceipts = {} /\ hist = EmptyHist

AutoInitOf(inputs) ==
    /\ \E in \in inputs :
          /\ cfg = in[1]
          /\ args = in[2]
          /\ signed_blob = InitialBlob(in[2])
    /\ tx_hashes = <<>> /\ receipts_json = <<>>
    /\ attempts = 0 /\ bump_idx = 0 /\ retry_count = 0
    /\ bumped_signed_blob = <<>> /\ cursor = 1
    /\ apc = "submit" /\ outcome = "none"
    /\ nodePool = {} /\ nodeReceipts = {} /\ hist = EmptyHist
    /\ SimIdle /\ LibIdle

AutoInit == AutoInitOf(AutoInputs)
AutoLiveInit == AutoInitOf(AutoLiveInputs)

(***************************************************************************)
(* Autosubmitter: the session                                              *)
(*                                                                         *)
(* One step per await of the call: the relay call, each                    *)
(* send_raw_transaction, each get_transaction_receipt, each                *)
(* sign_typed_transaction and each sleep; the node acts between them.      *)
(* `cursor` is the position of the `for` loop that is running.             *)
(***************************************************************************)
\* Longest receipts_json kept.  It is larger than any bundle explored, and a
\* list longer than the tracked hashes can never again have their length, so
\* what is cut off cannot change what the session does.
MaxReceipts == 4
CutReceipts(s) == IF Len(s) > MaxReceipts THEN SubSeq(s, 1, MaxReceipts) ELSE s

Indices(s) == 1..Len(s)
Finish(result) == apc' = "done" /\ outcome' = result
\* the call panics: it never returns
Panics == apc' = "panicked" /\ outcome' = "panic"

\* what the post of relay.submit_flashbots_bundle may end with: an error when
\* no relay is configured, an answer or an error otherwise
RelayResults(a) == IF a.relay_configured THEN {"ok", "err"} ELSE {"err"}

\* faulty variant: the relay is tried again whenever a polling phase starts
RelayAttemptAgain ==
    /\ apc \in {"submit", "poll"} /\ attempts = 0 /\ hist.relayCalls < 2
    /\ apc' = IF apc = "submit" THEN "relay_response" ELSE apc
    /\ hist' = [hist EXCEPT !.relayCalls = @ + 1]
    /\ UNCHANGED <<cfg, args, signed_blob, tx_hashes, receipts_json, attempts, bump_idx,
                   retry_count, bumped_signed_blob, cursor, outcome, nodePool, nodeReceipts>>
    /\ UNCHANGED <<simVars, libVars>>

\* Line 67 with executor.rs 50-71: the relay call up to its first await.
\* Without a relay URL it returns an error at once; otherwise the envelope is
\* posted: the post fails, or the relay has the bundle (which may then get
\* included) and the call waits for the body of the answer.
RelayAttempt ==
    /\ apc = "submit"
    /\ \E result \in RelayResults(args) :
          /\ nodePool' = IF result = "ok"
                         THEN nodePool \cup Range(SeqMap(Keccak256, signed_blob))
                         ELSE nodePool
          /\ hist' = [hist EXCEPT !.relayCalls = @ + 1, !.relayFailed = (result = "err")]
          /\ apc' = IF result = "ok" THEN "relay_response" ELSE "broadcast"
    /\ UNCHANGED <<cfg, args, signed_blob, tx_hashes, receipts_json, attempts, bump_idx,
                   retry_count, bumped_signed_blob, cursor, outcome, nodeReceipts>>
    /\ UNCHANGED <<simVars, libVars>>

\* Lines 67-75 with executor.rs 72: the second await of the relay call, the
\* body of the answer.  A body that is no JSON makes the call an error; the
\* result is only logged.
RelayResponse ==
    /\ apc = "relay_response"
    /\ \E parsed \in BOOLEAN :
          hist' = [hist EXCEPT !.relayFailed = ~parsed]
    /\ apc' = "broadcast"
    /\ UNCHANGED <<cfg, args, signed_blob, tx_hashes, receipts_json, attempts, bump_idx,
                   retry_count, bumped_signed_blob, cursor, outcome, nodePool, nodeReceipts>>
    /\ UNCHANGED <<simVars, libVars>>

\* Lines 93-95: after the last send the counters of the polling loop are set
\* up; the division of line 95 panics before the first poll when
\* poll_interval_secs is 0.
StartPolling ==
    IF MaxAttempts = DivideByZero THEN Panics ELSE apc' = "poll" /\ outcome' = outcome

\* Lines 78-81, 93-95: the provider, the empty list of tracked hashes and,
\* for a bundle without transactions, the start of the polling.
DirectBroadcast ==
    /\ apc = "broadcast"
    /\ \E urlOk \in BOOLEAN :
          IF ~urlOk
          THEN /\ Finish("err_invalid_rpc_url")
               /\ UNCHANGED <<tx_hashes, receipts_json, attempts, cursor>>
          ELSE /\ IF signed_blob = <<>>
                  THEN StartPolling
                  ELSE apc' = "send" /\ outcome' = outcome
               /\ tx_hashes' = <<>>
               /\ receipts_json' = <<>>
               /\ attempts' = 0
               /\ cursor' = 1
    /\ UNCHANGED <<cfg, args, signed_blob, bump_idx, retry_count, bumped_signed_blob,
                   nodePool, nodeReceipts, hist>>
    /\ UNCHANGED <<simVars, libVars>>

\* Lines 82-89: tx_hashes.push(tx_hash), whatever send_raw_transaction answered
TrackedHashes(hashes, raw, sent) == Append(hashes, Keccak256(raw))

\* Lines 82-95: one iteration of the first direct broadcast: the raw
\* transaction is sent and its hash is tracked; after the last one the polling
\* starts.  The node may refuse the send, and a node that refuses it may have
\* the transaction all the same (`known`: it got it from the relay or from
\* another peer, the case the comment of line 85 is about).
DirectSend ==
    /\ apc = "send" /\ cursor <= Len(signed_blob)
    /\ LET raw == signed_blob[cursor] IN
       \E sent \in BOOLEAN, known \in BOOLEAN :
          /\ nodePool' = IF sent \/ known THEN nodePool \cup {Keccak256(raw)} ELSE nodePool
          /\ tx_hashes' = TrackedHashes(tx_hashes, raw, sent)
          /\ hist' = [hist EXCEPT !.directSends = Append(@, raw)]
    /\ IF cursor = Len(signed_blob)
       THEN StartPolling /\ cursor' = 1
       ELSE apc' = apc /\ outcome' = outcome /\ cursor' = cursor + 1
    /\ UNCHANGED <<cfg, args, signed_blob, receipts_json, attempts, bump_idx, retry_count,
                   bumped_signed_blob, nodeReceipts>>
    /\ UNCHANGED <<simVars, libVars>>

\* Lines 99-107: one iteration of `for h in tx_hashes.iter()`: the receipt of
\* one tracked hash is asked for and pushed when the answer is Ok(Some(..)).
\* For a transaction the node has mined the query may still fail or answer
\* None (an RPC error, a node that lags or dropped the block).
PollQuery ==
    /\ apc = "poll" /\ cursor <= Len(tx_hashes)
    /\ \E answered \in BOOLEAN :
          receipts_json' = CutReceipts(IF answered /\ tx_hashes[cursor] \in nodeReceipts
                                       THEN Append(receipts_json, tx_hashes[cursor])
                                       ELSE receipts_json)
    /\ cursor' = cursor + 1
    /\ UNCHANGED <<cfg, args, signed_blob, tx_hashes, attempts, bump_idx, retry_count,
                   bumped_signed_blob, apc, outcome, nodePool, nodeReceipts, hist>>
    /\ UNCHANGED <<simVars, libVars>>

\* if receipts_json.len() == tx_hashes.len()
AllIncluded(receipts) == Len(receipts) = Len(tx_hashes)

\* faulty variant: the timeout branch does not look at max_retries
PollWithoutRetryCheck ==
    /\ apc = "poll" /\ cursor > Len(tx_hashes)
    /\ LET n == attempts + 1
       IN  /\ attempts' = n
           /\ hist' = [hist EXCEPT !.polls = Count(@), !.polledSinceBump = TRUE,
                                   !.phaseSecs = IF AllIncluded(receipts_json) \/ n >= MaxAttempts
                                                 THEN @ ELSE @ + cfg.poll_interval_secs]
           /\ IF AllIncluded(receipts_json)
              THEN Finish("ok") /\ UNCHANGED <<bump_idx, retry_count>>
              ELSE IF n >= MaxAttempts
              THEN IF CanRebid(args)
                   THEN apc' = "bump" /\ bump_idx' = 0 /\ UNCHANGED <<outcome, retry_count>>
                   ELSE apc' = "rebroadcast" /\ retry_count' = 0 /\ UNCHANGED <<outcome, bump_idx>>
              ELSE UNCHANGED <<apc, outcome, bump_idx, retry_count>>
    /\ cursor' = 1
    /\ UNCHANGED <<cfg, args, signed_blob, tx_hashes, receipts_json, bumped_signed_blob,
                   nodePool, nodeReceipts>>
    /\ UNCHANGED <<simVars, libVars>>

\* Lines 98, 108-119 and 244: the rest of one iteration of the polling loop,
\* after the receipts were asked for: the count of the poll, the return when
\* every hash has its receipt, the choice of the resubmission path at the
\* timeout, or the sleep before the next poll.
Poll ==
    /\ apc = "poll" /\ cursor > Len(tx_hashes)
    /\ LET n == attempts + 1
       IN  /\ attempts' = n
           /\ hist' = [hist EXCEPT !.polls = Count(@), !.polledSinceBump = TRUE,
                                   !.phaseSecs = IF AllIncluded(receipts_json) \/ n >= MaxAttempts
                                                 THEN @ ELSE @ + cfg.poll_interval_secs]
           /\ IF AllIncluded(receipts_json)
              THEN Finish("ok") /\ UNCHANGED <<bump_idx, retry_count>>
              ELSE IF n >= MaxAttempts
              THEN IF cfg.max_retries = 0
                   THEN Finish("err_timeout_no_retries") /\ UNCHANGED <<bump_idx, retry_count>>
                   ELSE IF CanRebid(args)
                   THEN apc' = "bump" /\ bump_idx' = 0 /\ UNCHANGED <<outcome, retry_count>>
                   ELSE apc' = "rebroadcast" /\ retry_count' = 0 /\ UNCHANGED <<outcome, bump_idx>>
              ELSE UNCHANGED <<apc, outcome, bump_idx, retry_count>>
    /\ cursor' = 1
    /\ UNCHANGED <<cfg, args, signed_blob, tx_hashes, receipts_json, bumped_signed_blob,
                   nodePool, nodeReceipts>>
    /\ UNCHANGED <<simVars, libVars>>

\* Lines 120-169: the start of one iteration of `for bump_idx in 0..max_bumps`:
\* the factor, the worst-case cost (whose conversions may panic) and the two
\* kill switches.
BumpAttempt ==
    /\ apc = "bump" /\ bump_idx < cfg.max_bumps
    /\ LET k == bump_idx + 1
           worst_case_cost == WorstCaseCost(args.bundle, Factor(k))
       IN  IF worst_case_cost = U128Panic
           THEN /\ Panics
                /\ hist' = [hist EXCEPT !.stoppedAt = k]
                /\ UNCHANGED <<bumped_signed_blob, cursor>>
           ELSE IF GasKillSwitch(worst_case_cost)
           THEN /\ Finish("err_kill_switch_gas")
                /\ hist' = [hist EXCEPT !.stoppedAt = k]
                /\ UNCHANGED <<bumped_signed_blob, cursor>>
           ELSE IF LossKillSwitch(worst_case_cost)
           THEN /\ Finish("err_kill_switch_loss")
                /\ hist' = [hist EXCEPT !.stoppedAt = k]
                /\ UNCHANGED <<bumped_signed_blob, cursor>>
           ELSE /\ apc' = IF args.bundle = <<>> THEN "bump_send" ELSE "bump_sign"
                /\ bumped_signed_blob' = <<>>
                /\ cursor' = 1
                /\ UNCHANGED <<outcome, hist>>
    /\ UNCHANGED <<cfg, args, signed_blob, tx_hashes, receipts_json, attempts, bump_idx,
                   retry_count, nodePool, nodeReceipts>>
    /\ UNCHANGED <<simVars, libVars>>

\* faulty variant: each transaction of a bump is broadcast as soon as it is signed
BumpSignSendingAsSigned ==
    /\ apc = "bump_sign" /\ cursor <= Len(args.bundle)
    /\ LET k == bump_idx + 1
           tx == BumpTx(args.bundle[cursor], Factor(k))
       IN  IF tx = TxPanic
           THEN /\ Panics
                /\ hist' = [hist EXCEPT !.stoppedAt = k]
                /\ UNCHANGED <<bumped_signed_blob, cursor, nodePool>>
           ELSE
           \E signs \in {TRUE} \cup (IF SignerMayFail(args.signer) THEN {FALSE} ELSE {}) :
              IF ~signs
              THEN /\ Finish("err_sign")
                   /\ hist' = [hist EXCEPT !.stoppedAt = k]
                   /\ UNCHANGED <<bumped_signed_blob, cursor, nodePool>>
              ELSE /\ bumped_signed_blob' = Append(bumped_signed_blob, SignTyped(args.signer, tx))
                   /\ nodePool' = nodePool \cup {Keccak256(SignTyped(args.signer, tx))}
                   /\ hist' = [hist EXCEPT
                          !.signed = @ \cup {<<k, cursor, tx>>},
                          !.broadcast = @ \cup {<<k, SignTyped(args.signer, tx)>>}]
                   /\ IF cursor = Len(args.bundle)
                      THEN apc' = "bump_send" /\ cursor' = 1
                      ELSE apc' = apc /\ cursor' = cursor + 1
                   /\ outcome' = outcome
    /\ UNCHANGED <<cfg, args, signed_blob, tx_hashes, receipts_json, attempts, bump_idx,
                   retry_count, nodeReceipts>>
    /\ UNCHANGED <<simVars, libVars>>

\* Lines 169-199: one iteration of `for tx in unsigned.iter()`: the bumped
\* clone of one unsigned transaction is built (a fee beyond a u128 panics),
\* signed (the signer may fail, which ends the call) and pushed to
\* bumped_signed_blob.
BumpSign ==
    /\ apc = "bump_sign" /\ cursor <= Len(args.bundle)
    /\ LET k == bump_idx + 1
           tx == BumpTx(args.bundle[cursor], Factor(k))
       IN  IF tx = TxPanic
           THEN /\ Panics
                /\ hist' = [hist EXCEPT !.stoppedAt = k]
                /\ UNCHANGED <<bumped_signed_blob, cursor>>
           ELSE
           \E signs \in {TRUE} \cup (IF SignerMayFail(args.signer) THEN {FALSE} ELSE {}) :
              IF ~signs
              THEN /\ Finish("err_sign")
                   /\ hist' = [hist EXCEPT !.stoppedAt = k]
                   /\ UNCHANGED <<bumped_signed_blob, cursor>>
              ELSE /\ bumped_signed_blob' = Append(bumped_signed_blob, SignTyped(args.signer, tx))
                   /\ hist' = [hist EXCEPT !.signed = @ \cup {<<k, cursor, tx>>}]
                   /\ IF cursor = Len(args.bundle)
                      THEN apc' = "bump_send" /\ cursor' = 1
                      ELSE apc' = apc /\ cursor' = cursor + 1
                   /\ outcome' = outcome
    /\ UNCHANGED <<cfg, args, signed_blob, tx_hashes, receipts_json, attempts, bump_idx,
                   retry_count, nodePool, nodeReceipts>>
    /\ UNCHANGED <<simVars, libVars>>

\* Lines 201-205: one iteration of the broadcast of the bumped bundle; the
\* result of the send is dropped (`let _ =`); the node may have refused it,
\* and may have the transaction although it refused it.
BumpSend ==
    /\ apc = "bump_send" /\ cursor <= Len(bumped_signed_blob)
    /\ \E sent \in BOOLEAN, known \in BOOLEAN :
          nodePool' = IF sent \/ known
                      THEN nodePool \cup {Keccak256(bumped_signed_blob[cursor])}
                      ELSE nodePool
    /\ hist' = [hist EXCEPT !.broadcast = @ \cup {<<bump_idx + 1, bumped_signed_blob[cursor]>>}]
    /\ cursor' = cursor + 1
    /\ UNCHANGED <<cfg, args, signed_blob, tx_hashes, receipts_json, attempts, bump_idx,
                   retry_count, bumped_signed_blob, apc, outcome, nodeReceipts>>
    /\ UNCHANGED <<simVars, libVars>>

\* Lines 212-226: after the broadcast: attempts is reset, the tracked hashes
\* and the kept bundle are replaced by the bumped ones, and after the sleep of
\* one second the loop over the bumps goes on.
BumpTrack ==
    /\ apc = "bump_send" /\ cursor > Len(bumped_signed_blob)
    /\ attempts' = 0
    /\ tx_hashes' = SeqMap(Keccak256, bumped_signed_blob)
    /\ signed_blob' = bumped_signed_blob
    /\ bumped_signed_blob' = <<>>
    /\ bump_idx' = bump_idx + 1
    /\ cursor' = 1
    /\ apc' = "bump"
    /\ hist' = [hist EXCEPT !.polledSinceBump = FALSE, !.phaseSecs = 0]
    /\ UNCHANGED <<cfg, args, receipts_json, retry_count, outcome, nodePool, nodeReceipts>>
    /\ UNCHANGED <<simVars, libVars>>

\* Line 229: the loop over the bumps is over.
BumpsExhausted ==
    /\ apc = "bump" /\ bump_idx >= cfg.max_bumps
    /\ Finish("err_bumps_exhausted")
    /\ UNCHANGED <<cfg, args, signed_blob, tx_hashes, receipts_json, attempts, bump_idx,
                   retry_count, bumped_signed_blob, cursor, nodePool, nodeReceipts, hist>>
    /\ UNCHANGED <<simVars, libVars>>

\* Lines 235-238: one send of a re-broadcast round; the result of the send
\* is dropped; the node may have refused it, and may have the transaction
\* although it refused it.
RebroadcastSend ==
    /\ apc = "rebroadcast" /\ retry_count < cfg.max_retries
    /\ cursor <= Len(signed_blob)
    /\ \E sent \in BOOLEAN, known \in BOOLEAN :
          nodePool' = IF sent \/ known THEN nodePool \cup {Keccak256(signed_blob[cursor])}
                      ELSE nodePool
    /\ hist' = [hist EXCEPT !.resent = @ \cup {signed_blob[cursor]}]
    /\ cursor' = cursor + 1
    /\ UNCHANGED <<cfg, args, signed_blob, tx_hashes, receipts_json, attempts, bump_idx,
                   retry_count, bumped_signed_blob, apc, outcome, nodeReceipts>>
    /\ UNCHANGED <<simVars, libVars>>

\* Lines 233-240: the end of one iteration of `while retry_count <
\* max_retries`: the count of the round and the sleep of one second.
RebroadcastRound ==
    /\ apc = "rebroadcast" /\ retry_count < cfg.max_retries
    /\ cursor > Len(signed_blob)
    /\ retry_count' = retry_count + 1
    /\ cursor' = 1
    /\ hist' = [hist EXCEPT !.rounds = Count(@)]
    /\ UNCHANGED <<cfg, args, signed_blob, tx_hashes, receipts_json, attempts, bump_idx,
                   bumped_signed_blob, apc, outcome, nodePool, nodeReceipts>>
    /\ UNCHANGED <<simVars, libVars>>

\* Lines 241-244: the re-broadcast loop is over; polling resumes after the
\* sleep of line 244.
RebroadcastDone ==
    /\ apc = "rebroadcast" /\ retry_count >= cfg.max_retries
    /\ attempts' = 0
    /\ apc' = "poll"
    /\ cursor' = 1
    /\ hist' = [hist EXCEPT !.phaseSecs = cfg.poll_interval_secs]
    /\ UNCHANGED <<cfg, args, signed_blob, tx_hashes, receipts_json, bump_idx, retry_count,
                   bumped_signed_blob, outcome, nodePool, nodeReceipts>>
    /\ UNCHANGED <<simVars, libVars>>

\* nonce of the transaction with hash h
NonceOf(h) == h.keccak.rlp.nonce

\* The execution node mines a transaction it has: one the relay delivered,
\* one it accepted from the session, or one it knew already when it refused
\* the session's send.  Of the transactions of one sender with one nonce (a
\* transaction and its bumped replacements) the chain holds at most one.
NodeInclude ==
    /\ apc \in {"relay_response", "send", "poll", "bump", "bump_sign", "bump_send",
               "rebroadcast"}
    /\ \E h \in nodePool \ nodeReceipts :
          /\ \A g \in nodeReceipts : NonceOf(g) # NonceOf(h)
          /\ nodeReceipts' = nodeReceipts \cup {h}
    /\ UNCHANGED <<cfg, args, signed_blob, tx_hashes, receipts_json, attempts, bump_idx,
                   retry_count, bumped_signed_blob, cursor, apc, outcome, nodePool, hist>>
    /\ UNCHANGED <<simVars, libVars>>

SessionStep ==
    \/ RelayAttempt \/ RelayResponse \/ DirectBroadcast \/ DirectSend \/ PollQuery \/ Poll
    \/ BumpAttempt \/ BumpSign \/ BumpSend \/ BumpTrack \/ BumpsExhausted
    \/ RebroadcastSend \/ RebroadcastRound \/ RebroadcastDone

AutoNext ==
    \/ RelayAttempt
    \/ RelayResponse
    \/ DirectBroadcast
    \/ DirectSend
    \/ PollQuery
    \/ Poll
    \/ BumpAttempt
    \/ BumpSign
    \/ BumpSend
    \/ BumpTrack
    \/ BumpsExhausted
    \/ RebroadcastSend
    \/ RebroadcastRound
    \/ RebroadcastDone
    \/ NodeInclude

AutoSpec == AutoInit /\ [][AutoNext]_vars

\* The session is one async task of the executor: whenever it can take a step
\* (its awaits on the node, the signer and the timers return), it does.
AutoLiveSpec == AutoLiveInit /\ [][AutoNext]_vars /\ WF_vars(SessionStep)

(***************************************************************************)
(* Autosubmitter: claims                                                   *)
(***************************************************************************)
Done == apc = "done"
Returned(result) == apc = "done" /\ outcome = result

\* The cost and loss of bump attempt k as the specification words them, in
\* exact integer arithmetic: gas_limit times the fee scaled by bump_factor^k
\* (rounded down to an integer), summed over the unsigned transactions, then
\* limited to the unsigned width; the loss is the cost minus the expected PnL,
\* limited to the signed width.
ClaimFee(tx) ==
    IF tx.variant = "Eip1559" THEN (IF tx.max_fee_per_gas.some THEN tx.max_fee_per_gas.val ELSE 0)
    ELSE IF tx.variant = "Legacy" THEN (IF tx.gas_price.some THEN tx.gas_price.val ELSE 0)
    ELSE 0
ClaimGas(tx) == IF tx.gas.some THEN tx.gas.val ELSE 21000
ClaimBumped(fee, k) ==
    (fee * Pow(cfg.bump_factor.num, k)) \div Pow(cfg.bump_factor.den, k)
RECURSIVE ClaimCostSum(_, _, _)
ClaimCostSum(txs, k, i) ==
    IF i > Len(txs) THEN 0
    ELSE ClaimGas(txs[i]) * ClaimBumped(ClaimFee(txs[i]), k) + ClaimCostSum(txs, k, i + 1)
ClaimCost(k) ==
    LET c == ClaimCostSum(args.bundle, k, 1) IN IF c > U128Max THEN U128Max ELSE c
RECURSIVE ClaimPnlSum(_, _)
ClaimPnlSum(pnls, i) == IF i > Len(pnls) THEN 0 ELSE pnls[i] + ClaimPnlSum(pnls, i + 1)
ClaimLoss(k) ==
    LET l == ClaimCost(k) - ClaimPnlSum(args.expected_pnl.val, 1)
    IN  IF l > I128Max THEN I128Max ELSE IF l < I128Min THEN I128Min ELSE l

\* bump attempts of which a transaction was signed or broadcast
AttemptsSigned == {e[1] : e \in hist.signed}
AttemptsBroadcast == {e[1] : e \in hist.broadcast}

\* C2: the session returns success only when every tracked hash has a receipt
\* on the node, and the returned list holds exactly one receipt per tracked
\* hash.
C2_SuccessHasEveryReceiptOnce ==
    Returned("ok") =>
        /\ \A i \in Indices(tx_hashes) : tx_hashes[i] \in nodeReceipts
        /\ Len(receipts_json) = Len(tx_hashes)
        /\ \A h \in Range(tx_hashes) :
               Cardinality({i \in Indices(receipts_json) : receipts_json[i] = h}) = 1

\* C3: if no transaction is ever included, the session ends (with an error
\* when it tracks a transaction at all), on the re-bid path and on the
\* re-broadcast path.
C3_EndsWithoutInclusion ==
    [](nodeReceipts = {}) =>
        <>(Done /\ (tx_hashes # <<>> => outcome # "ok"))

\* C4: on the re-bid path, once a bump attempt was broadcast, the session
\* polls the bumped hashes before it applies the next bump or fails.
C4_PollsAfterEachBump ==
    [][(hist.broadcast # {} /\ (BumpAttempt \/ BumpsExhausted)) => hist.polledSinceBump]_vars

\* C5: with kill_switch_max_gas_wei set, a bump attempt whose worst-case cost
\* exceeds the limit is never applied: nothing of it is signed or broadcast,
\* and the session that reaches it aborts with the gas kill-switch error.
C5_GasKillSwitchBeforeBump ==
    cfg.kill_switch_max_gas_wei.some =>
        LET limit == cfg.kill_switch_max_gas_wei.val IN
        /\ \A k \in AttemptsSigned \cup AttemptsBroadcast : ClaimCost(k) <= limit
        /\ apc \in {"bump", "done"} => \A k \in 1..bump_idx : ClaimCost(k) <= limit
        /\ Returned("err_kill_switch_gas") =>
               /\ hist.stoppedAt = bump_idx + 1
               /\ ClaimCost(hist.stoppedAt) > limit
        /\ (apc = "done" /\ hist.stoppedAt > 0 /\ ClaimCost(hist.stoppedAt) > limit)
               => outcome = "err_kill_switch_gas"

\* C6: with kill_switch_max_loss_wei set and expected PnL supplied, no bump
\* attempt is signed or broadcast whose projected loss exceeds the limit.
C6_LossKillSwitchBeforeBump ==
    (cfg.kill_switch_max_loss_wei.some /\ args.expected_pnl.some) =>
        \A k \in AttemptsSigned \cup AttemptsBroadcast :
            ClaimLoss(k) <= cfg.kill_switch_max_loss_wei.val

\* The literal kill-switch scenario: limit 10^15 wei, two EIP-1559 transactions
\* of gas_limit 21000 and max_fee 10^11 wei, bump_factor 1.25, max_bumps 3.
C7_Scenario ==
    /\ cfg.kill_switch_max_gas_wei = Some(KillSwitchGasPair)
    /\ args.bundle = BundlePair /\ CanRebid(args)
    /\ cfg.bump_factor = [num |-> 5, den |-> 4]
    /\ cfg.max_bumps = 3

\* C7 as stated: in the scenario the gas kill switch fires at the third bump
\* attempt (after the first two were applied).
C7_FiresAtThirdAttempt ==
    (C7_Scenario /\ Returned("err_kill_switch_gas")) =>
        /\ hist.stoppedAt = 3
        /\ AttemptsBroadcast = {1, 2}

\* C7 amended: in the scenario the gas kill switch fires at the first bump
\* attempt: the session that times out aborts there with the gas kill-switch
\* error and no bumped transaction is ever signed or broadcast.
C7_FiresAtFirstAttempt ==
    C7_Scenario =>
        /\ hist.signed = {} /\ hist.broadcast = {}
        /\ apc = "bump" => bump_idx = 0
        /\ Done => outcome \in {"ok", "err_invalid_rpc_url", "err_timeout_no_retries",
                                "err_kill_switch_gas"}
        /\ Returned("err_kill_switch_gas") => hist.stoppedAt = 1

C7_Witness ==
    C7_Scenario /\ Returned("err_kill_switch_gas") /\ hist.stoppedAt = 1

\* C8: without a signer and with max_bumps = 0 the session only re-sends the
\* unchanged signed transactions, nothing is re-signed, and it performs at most
\* max_retries re-broadcast rounds over the whole session.
C8_AtMostMaxRetriesRounds ==
    (apc # "idle" /\ ~args.has_signer /\ cfg.max_bumps = 0) =>
        /\ hist.signed = {} /\ hist.broadcast = {}
        /\ hist.resent \subseteq Range(hist.directSends)
        /\ hist.rounds <= cfg.max_retries

\* something was sent directly to the node
SentDirectly == hist.directSends # <<>> \/ hist.broadcast # {} \/ hist.resent # {}

\* C21: in every session the relay submission is attempted exactly once, and
\* before any raw transaction is sent directly to the node; bump attempts and
\* re-broadcast rounds send directly only and never call the relay again.
C21_RelayOnceBeforeDirect ==
    /\ [](/\ hist.relayCalls <= 1
          /\ (apc \notin {"idle", "submit"} \/ SentDirectly) => hist.relayCalls = 1)
    /\ [][hist'.relayCalls # hist.relayCalls => (~SentDirectly /\ tx_hashes = <<>>)]_vars
    /\ [][(\/ RelayResponse \/ DirectBroadcast \/ DirectSend \/ PollQuery \/ Poll
           \/ BumpAttempt \/ BumpSign \/ BumpSend \/ BumpTrack
           \/ RebroadcastSend \/ RebroadcastRound \/ RebroadcastDone)
             => hist'.relayCalls = hist.relayCalls]_vars

\* C21 witness: two bumped bundles were broadcast after the first direct
\* broadcast, with one relay call in the session.
C21_Witness ==
    /\ hist.relayCalls = 1 /\ ~hist.relayFailed
    /\ Len(hist.directSends) = 2
    /\ AttemptsBroadcast = {1, 2}

\* C22: neither a failed relay submission nor a failed direct
\* send_raw_transaction aborts the session: whenever the provider could be
\* built, every raw transaction was sent to the node in bundle order, the
\* hash of every one of them is tracked (also of those whose send failed), and
\* the polling phase is reached; the only end of the session before the first
\* poll, by a return or by a panic, is the return of the invalid RPC URL.
C22_FailuresDoNotAbort ==
    /\ apc = "send" =>
          /\ Len(hist.directSends) = cursor - 1 /\ Len(tx_hashes) = cursor - 1
          /\ \A i \in 1..(cursor - 1) :
                /\ hist.directSends[i] = InitialBlob(args)[i]
                /\ tx_hashes[i] = Keccak256(InitialBlob(args)[i])
    /\ (apc = "poll" /\ hist.polls = 0) =>
          /\ hist.directSends = InitialBlob(args)
          /\ Len(tx_hashes) = Len(args.bundle)
          /\ \A i \in 1..Len(args.bundle) : tx_hashes[i] = Keccak256(InitialBlob(args)[i])
    /\ ((Done \/ apc = "panicked") /\ hist.polls = 0) => outcome = "err_invalid_rpc_url"
    /\ hist.polls > 0 => hist.directSends = InitialBlob(args)

\* C22 witness: the relay call failed and so did both direct sends; the
\* session polls the two hashes.
C22_Witness ==
    /\ apc = "poll" /\ hist.polls = 1
    /\ hist.relayFailed /\ nodePool = {}
    /\ Len(tx_hashes) = 2

\* C28: a poll at which every tracked hash has a receipt on the node returns
\* success at that poll, whichever of the hashes had receipts at earlier polls.
C28_SuccessAtFullInclusion ==
    [][(Poll /\ \A i \in Indices(tx_hashes) : tx_hashes[i] \in nodeReceipts)
          => (apc' = "done" /\ outcome' = "ok")]_vars

\* the timeout branch of the polling loop was entered by this step
TimeoutBranchTaken ==
    apc' \in {"bump", "rebroadcast"} \/ (apc' = "done" /\ outcome' = "err_timeout_no_retries")

\* C29: in every polling phase, the initial one and the one after each
\* resubmission, a poll without full inclusion takes the timeout branch exactly
\* when it is poll number floor(max_wait_secs / poll_interval_secs) of the
\* phase; consecutive polls are poll_interval_secs apart, and no poll is later
\* than max_wait_secs after the start of its phase.  A resubmission or the
\* failure of the timeout branch therefore comes after that many polls.
C29_TimeoutAfterMaxAttemptsPolls ==
    /\ [](MaxAttempts # DivideByZero => attempts <= MaxAttempts)
    /\ [][(Poll /\ ~(apc' = "done" /\ outcome' = "ok"))
             => /\ TimeoutBranchTaken <=> attempts' = MaxAttempts
                /\ ~TimeoutBranchTaken => hist'.phaseSecs = hist.phaseSecs + cfg.poll_interval_secs]_vars
    /\ [][Poll => hist.phaseSecs <= cfg.max_wait_secs]_vars
    /\ [][(BumpAttempt \/ BumpsExhausted \/ RebroadcastSend \/ RebroadcastRound)
             => attempts = MaxAttempts]_vars

\* the fee field `field` of tx, read as the bump reads it (absent = 0)
ClaimField(tx, field) == IF tx[field].some THEN tx[field].val ELSE 0

\* tx is the clone of the original `orig` that bump attempt k signs
ClaimBumpedClone(orig, tx, k) ==
    /\ tx.variant = orig.variant /\ tx.nonce = orig.nonce /\ tx.gas = orig.gas
    /\ IF orig.variant = "Eip1559"
       THEN /\ tx.max_fee_per_gas = Some(ClaimBumped(ClaimField(orig, "max_fee_per_gas"), k))
            /\ tx.max_priority_fee_per_gas =
                   Some(ClaimBumped(ClaimField(orig, "max_priority_fee_per_gas"), k))
            /\ tx.gas_price = orig.gas_price
       ELSE IF orig.variant = "Legacy"
       THEN /\ tx.gas_price = Some(ClaimBumped(ClaimField(orig, "gas_price"), k))
            /\ tx.max_fee_per_gas = orig.max_fee_per_gas
            /\ tx.max_priority_fee_per_gas = orig.max_priority_fee_per_gas
       ELSE tx = orig

\* C30: every transaction signed at bump attempt k is the caller's original
\* unsigned transaction of its position with only the fee fields changed, to
\* the original value times bump_factor^k rounded down (EIP-1559: both fee
\* fields, Legacy: gas_price, other variants: nothing); what a bump broadcasts
\* is such a transaction signed; the caller's transactions never change.
C30_BumpFromOriginal ==
    /\ [](/\ \A e \in hist.signed :
                /\ e[1] \in 1..cfg.max_bumps
                /\ e[2] \in Indices(args.bundle)
                /\ ClaimBumpedClone(args.bundle[e[2]], e[3], e[1])
          /\ \A b \in hist.broadcast :
                \E e \in hist.signed :
                    e[1] = b[1] /\ (args.signer # "InMemorySigner" => b[2] = [rlp |-> e[3]]))
    /\ [][apc # "idle" => args' = args]_vars

\* C31: with bump_factor = 1.0 every transaction a bump attempt signs has the
\* fee fields of the original (an absent field reads as 0), what it broadcasts
\* is such a transaction signed, and the attempts still count: a session that
\* fails without a kill switch or a signer error has performed exactly
\* max_bumps bump rounds.
C31_UnitFactorStillCounts ==
    (apc # "idle" /\ cfg.bump_factor = [num |-> 1, den |-> 1]) =>
        /\ \A e \in hist.signed :
              /\ e[3].variant = args.bundle[e[2]].variant
              /\ \A f \in {"max_fee_per_gas", "max_priority_fee_per_gas", "gas_price"} :
                    ClaimField(e[3], f) = ClaimField(args.bundle[e[2]], f)
        /\ \A b \in hist.broadcast :
              \E e \in hist.signed :
                  e[1] = b[1] /\ (args.signer # "InMemorySigner" => b[2] = [rlp |-> e[3]])
        /\ Returned("err_bumps_exhausted") =>
              /\ AttemptsSigned = 1..cfg.max_bumps
              /\ AttemptsBroadcast = 1..cfg.max_bumps
              /\ bump_idx = cfg.max_bumps
        /\ (Done /\ CanRebid(args) /\ cfg.max_retries > 0 /\ hist.stoppedAt = 0 /\ outcome # "ok"
               /\ outcome # "err_invalid_rpc_url")
              => outcome = "err_bumps_exhausted"

\* worst-case costs around the signed range
ClaimCostSamples == {0, 1, I128Max, I128Max + 1, U128Max - 1, U128Max}

\* C33: the kill-switch arithmetic saturates and never wraps: the projected
\* loss is monotone in the worst-case cost, and a bump attempt whose
\* worst-case cost is above the largest signed value (the saturated cost
\* included), with a loss above the configured limit, is stopped by the loss
\* kill switch: it is never signed or broadcast.
C33_SaturatingKillSwitch ==
    (apc # "idle" /\ args.expected_pnl.some) =>
        /\ \A c1, c2 \in ClaimCostSamples :
              c1 <= c2 => ProjectedLoss(c1, args.expected_pnl.val)
                             <= ProjectedLoss(c2, args.expected_pnl.val)
        /\ cfg.kill_switch_max_loss_wei.some =>
              \A k \in AttemptsSigned \cup AttemptsBroadcast :
                  ~(ClaimCost(k) > I128Max /\ ClaimLoss(k) > cfg.kill_switch_max_loss_wei.val)

\* C37: with max_retries = 0 the first poll that reaches the timeout without
\* full inclusion ends the session with the no-retries error in that very
\* step: the session never enters the bump loop or the re-broadcast loop,
\* nothing is re-signed or re-broadcast and the signed bundle and the tracked
\* hashes stay those of the first submission, also when unsigned transactions
\* and a signer were supplied and max_bumps > 0.
C37_NoRetriesNoResubmission ==
    /\ []((apc # "idle" /\ cfg.max_retries = 0) =>
             /\ apc \notin {"bump", "rebroadcast"}
             /\ hist.signed = {} /\ hist.broadcast = {}
             /\ hist.resent = {} /\ hist.rounds = 0
             /\ signed_blob = InitialBlob(args)
             /\ nodePool \subseteq Range(SeqMap(Keccak256, signed_blob))
             /\ attempts = hist.polls /\ bump_idx = 0 /\ retry_count = 0)
    /\ [][(Poll /\ cfg.max_retries = 0 /\ attempts' >= MaxAttempts /\ outcome' # "ok")
              => (apc' = "done" /\ outcome' = "err_timeout_no_retries")]_vars

\* a call with two unsigned transactions, a signer and max_bumps = 3 timed
\* out with max_retries = 0 after its bundle was broadcast
C37_Witness ==
    /\ Returned("err_timeout_no_retries")
    /\ CanRebid(args) /\ cfg.max_bumps = 3 /\ args.bundle = BundlePair
    /\ nodePool # {} /\ hist.signed = {}

\* C38: the loss kill switch is evaluated only when expected PnL values were
\* supplied: a session without them never ends with the loss kill-switch
\* error, whatever kill_switch_max_loss_wei is, and a session that ends with
\* that error was given both the PnL values and the limit.
C38_LossSwitchNeedsPnl ==
    /\ [](apc # "idle" =>
             /\ args.expected_pnl = None => outcome # "err_kill_switch_loss"
             /\ Returned("err_kill_switch_loss") =>
                    /\ args.expected_pnl.some /\ cfg.kill_switch_max_loss_wei.some
                    /\ ClaimLoss(hist.stoppedAt) > cfg.kill_switch_max_loss_wei.val)
    /\ [][(BumpAttempt /\ args.expected_pnl = None)
              => /\ outcome' # "err_kill_switch_loss"
                 /\ outcome' \notin {"err_kill_switch_gas", "panic"}
                       => apc' \in {"bump_sign", "bump_send"}]_vars

\* without expected PnL and with a loss limit of 0 wei, all three bumps of a
\* bundle with a positive worst-case cost were signed and broadcast
C38_Witness ==
    /\ args.expected_pnl = None /\ cfg.kill_switch_max_loss_wei = Some(0)
    /\ Returned("err_bumps_exhausted")
    /\ AttemptsBroadcast = {1, 2, 3} /\ ClaimCost(1) > 0

\* C39: a bump attempt is all-or-nothing with respect to signing: when the
\* signer fails on a transaction of attempt k, the session ends with the
\* signer's error in that step, no transaction of attempt k is broadcast (also
\* those signed before the failing one), and the signed bundle and the tracked
\* hashes are those of the previous attempt, of the first submission for k = 1.
C39_BumpAllOrNothing ==
    /\ [](Returned("err_sign") =>
             LET k == hist.stoppedAt IN
             /\ k = bump_idx + 1 /\ k \notin AttemptsBroadcast
             /\ Cardinality({e \in hist.signed : e[1] = k}) < Len(args.bundle)
             /\ k = 1 => signed_blob = InitialBlob(args)
             /\ k > 1 => /\ \A i \in Indices(args.bundle) :
                               /\ <<k - 1, signed_blob[i]>> \in hist.broadcast
                               /\ <<k - 1, i, signed_blob[i].rlp>> \in hist.signed
                         /\ tx_hashes = SeqMap(Keccak256, signed_blob)
             /\ Len(signed_blob) = Len(args.bundle)
             /\ \A h \in nodePool :
                    \/ h \in Range(SeqMap(Keccak256, InitialBlob(args)))
                    \/ \E b \in hist.broadcast : b[1] < k /\ h = Keccak256(b[2]))
    /\ [][(BumpSign /\ outcome' = "err_sign") =>
              /\ apc' = "done"
              /\ nodePool' = nodePool /\ hist'.broadcast = hist.broadcast
              /\ tx_hashes' = tx_hashes /\ signed_blob' = signed_blob]_vars

\* the signer failed on the second transaction of the second bump: the first
\* one was signed and is not on the node, the first bump's bundle is tracked
C39_Witness ==
    /\ Returned("err_sign") /\ hist.stoppedAt = 2 /\ args.bundle = BundlePair
    /\ \E e \in hist.signed : e[1] = 2 /\ e[2] = 1
    /\ AttemptsBroadcast = {1}
    /\ cfg.bump_factor = [num |-> 5, den |-> 4]

(***************************************************************************)
(* Simulator: simulate_signed_bundle against the forked node               *)
(*                                                                         *)
(* Every RPC of the call is an await: the steps of one call interleave     *)
(* with those of the other offset tasks, which use the same node.          *)
(***************************************************************************)
\* gas_used and effective_gas_price of a receipt
NodeCost(gas_used, effective_gas_price) ==
    [gas_used |-> gas_used, effective_gas_price |-> effective_gas_price]
\* a plain transfer at a gas price of 2
TransferCost == NodeCost(21000, 2)
\* What a node may report as the cost of a mined transaction: the fields of
\* the receipt are the node's, the caller takes them as they come.  The last
\* cost is i128::MAX + 1.  A node reports the costs of its field `costs`.
NodeCosts == {NodeCost(5, 1), TransferCost, NodeCost(I128Max + 1, 1)}

\* the node's receipt of a mined transaction
Receipt(raw, status, cost) ==
    [tx |-> raw, status |-> status,
     gas_used |-> cost.gas_used,
     effective_gas_price |-> cost.effective_gas_price]

NodeState == [chain |-> node.chain, base_fee |-> node.base_fee]

\* evm_revert on the node: restores the snapshot's state and drops it and the
\* snapshots taken after it; an unknown id changes nothing (the node answers
\* false, which the caller does not look at).
NodeRevert(id) ==
    IF \E sn \in node.snaps : sn.id = id
    THEN LET sn == CHOOSE x \in node.snaps : x.id = id
         IN  [node EXCEPT !.chain = sn.state.chain, !.base_fee = sn.state.base_fee,
                          !.snaps = {x \in node.snaps : x.id < id}]
    ELSE node

SimFrame == UNCHANGED <<rpc, sweepArgs, offset, permits, results, mpc, collected, best>>

\* simulate_signed_bundle returns `result` to its caller
SimReturn(t, result) == task' = [task EXCEPT ![t].pc = "returned", ![t].ret = result]

\* URLs the provider can be built from
ValidUrls == {"http://127.0.0.1:8545"}

\* Lines 101-104: the provider and evm_snapshot.
SimSnapshot(t) ==
    /\ task[t].pc = "sim_start"
    /\ IF rpc \notin ValidUrls
       THEN SimReturn(t, "err_invalid_rpc_url") /\ UNCHANGED node
       ELSE \E answer \in {"ok", "failed"} :
          IF answer = "ok"
          THEN /\ node' = [node EXCEPT
                      !.snaps = @ \cup {[id |-> node.next_id, state |-> NodeState]},
                      !.next_id = @ + 1]
               /\ task' = [task EXCEPT
                      ![t].snap_id = Some(node.next_id),
                      ![t].at_snapshot = NodeState,
                      ![t].pc = IF task[t].bf.some THEN "base_fee" ELSE "send"]
          ELSE SimReturn(t, "err_snapshot_failed") /\ UNCHANGED node
    /\ SimFrame /\ UNCHANGED <<autoVars, libVars>>

\* Lines 107-110: evm_setNextBlockBaseFeePerGas.
SimSetBaseFee(t) ==
    /\ task[t].pc = "base_fee"
    /\ \E answer \in {"ok", "failed"} :
          IF answer = "ok"
          THEN /\ node' = [node EXCEPT !.base_fee = task[t].bf]
               /\ task' = [task EXCEPT ![t].pc = "send"]
          ELSE /\ SimReturn(t, "err_set_base_fee_failed")
               /\ UNCHANGED node
    /\ SimFrame /\ UNCHANGED <<autoVars, libVars>>

\* What the node may answer to send_raw_transaction: it mines the transaction
\* at once (its execution succeeds or reverts, at a cost the node reports),
\* keeps it pending, or refuses it.  The caller does not look at the
\* transaction it sends.
NodeAnswers(raw) == {"mined_ok", "mined_reverted", "pending", "refused"}

\* faulty variant: every remaining transaction is broadcast before the first
\* receipt is awaited
SimSendPipelined(t) ==
    /\ task[t].pc = "send" /\ task[t].i <= Len(task[t].signed_blob)
    /\ LET rest == SubSeq(task[t].signed_blob, task[t].i, Len(task[t].signed_blob))
       IN  /\ node' = [node EXCEPT !.chain =
                          @ \o [j \in 1..Len(rest) |-> Receipt(rest[j], 1, TransferCost)]]
           /\ task' = [task EXCEPT ![t].pc = "receipt", ![t].sent = @ + Len(rest)]
    /\ SimFrame /\ UNCHANGED <<autoVars, libVars>>

\* Lines 114-116: send_raw_transaction of the next raw transaction.
SimSend(t) ==
    /\ task[t].pc = "send" /\ task[t].i <= Len(task[t].signed_blob)
    /\ LET raw == task[t].signed_blob[task[t].i] IN
       \E answer \in NodeAnswers(raw), cost \in node.costs :
          CASE answer = "refused" ->
                 /\ task' = [task EXCEPT ![t].pc = "returned",
                                         ![t].ret = "err_send_raw_failed",
                                         ![t].sent = @ + 1]
                 /\ UNCHANGED node
            [] answer = "pending" ->
                 /\ task' = [task EXCEPT ![t].pc = "receipt", ![t].sent = @ + 1]
                 /\ UNCHANGED node
            [] OTHER ->
                 /\ node' = [node EXCEPT !.chain =
                                Append(@, Receipt(raw, IF answer = "mined_ok" THEN 1 ELSE 0, cost))]
                 /\ task' = [task EXCEPT ![t].pc = "receipt", ![t].sent = @ + 1]
    /\ SimFrame /\ UNCHANGED <<autoVars, libVars>>

\* What the wait for a receipt may end with instead of a receipt: the timeout
\* of 10 s, an error of the provider's receipt query, or no receipt.
ReceiptFailures == {"err_timeout_awaiting_tx", "err_receipt_query_failed", "err_no_receipt"}

\* The receipts the node may answer the wait for `raw` with: the one on its
\* chain; for a transaction that is not on its chain (kept pending, or taken
\* off the chain by the evm_revert of another call) any receipt, which the
\* caller takes as it comes.
NodeReceipts(raw) ==
    LET mined == {k \in 1..Len(node.chain) : node.chain[k].tx = raw}
    IN  IF mined # {}
        THEN {node.chain[CHOOSE k \in mined : \A j \in mined : k >= j]}
        ELSE {Receipt(raw, status, cost) : status \in {0, 1}, cost \in node.costs}

\* the node holds a receipt of raw, or answers one all the same, or the wait
\* fails
ReceiptAnswers(raw) ==
    IF \E k \in 1..Len(node.chain) : node.chain[k].tx = raw
    THEN {"receipt"} ELSE {"receipt"} \cup ReceiptFailures

\* Lines 117-119: the wait for the receipt, at most 10 s.
SimAwaitReceipt(t) ==
    /\ task[t].pc = "receipt"
    /\ LET raw == task[t].signed_blob[task[t].i] IN
       \E r \in ReceiptAnswers(raw) :
          IF r = "receipt"
          THEN \E receipt \in NodeReceipts(raw) :
                  task' = [task EXCEPT ![t].receipts = Append(@, receipt),
                                       ![t].i = @ + 1,
                                       ![t].pc = "send"]
          ELSE SimReturn(t, r)
    /\ UNCHANGED node
    /\ SimFrame /\ UNCHANGED <<autoVars, libVars>>

\* Lines 121-124: after the loop, evm_revert to the snapshot and the return of
\* the receipts.
SimRevert(t) ==
    /\ task[t].pc = "send" /\ task[t].i > Len(task[t].signed_blob)
    /\ \E answer \in {"ok", "failed"} :
          IF answer = "ok"
          THEN /\ node' = NodeRevert(task[t].snap_id.val)
               /\ task' = [task EXCEPT ![t].pc = "returned", ![t].ret = "ok",
                                       ![t].reverts = @ \cup {task[t].snap_id.val}]
          ELSE /\ task' = [task EXCEPT ![t].pc = "returned", ![t].ret = "err_revert_failed",
                                       ![t].reverts = @ \cup {task[t].snap_id.val}]
               /\ UNCHANGED node
    /\ SimFrame /\ UNCHANGED <<autoVars, libVars>>

(***************************************************************************)
(* Simulator: autosubmit_signed_bundle (sim.rs 214-231)                    *)
(*                                                                         *)
(* The bundle goes to the relay; when the relay call fails it is sent to   *)
(* the node transaction by transaction, with no snapshot and no revert.    *)
(***************************************************************************)
\* Line 221: the relay call failed; the provider is built for the fallback.
AutosubmitFallback(t) ==
    IF rpc \notin ValidUrls THEN SimReturn(t, "err_invalid_rpc_url")
    ELSE task' = [task EXCEPT ![t].pc = "auto_send"]

\* Line 216 with executor.rs 50-71: the relay call up to its POST.  Without a
\* relay URL, or when the POST fails, the call has failed; otherwise the
\* relay's response is awaited.
AutosubmitRelay(t) ==
    /\ task[t].pc = "auto_start"
    /\ \E relay \in {"answered", "failed"} :
          IF relay = "answered" THEN task' = [task EXCEPT ![t].pc = "auto_relay_response"]
          ELSE AutosubmitFallback(t)
    /\ UNCHANGED node
    /\ SimFrame /\ UNCHANGED <<autoVars, libVars>>

\* Lines 216-218 with executor.rs 72: the body of the relay's response is read
\* as JSON; the value is returned, a body that is no JSON fails the call.
AutosubmitRelayResponse(t) ==
    /\ task[t].pc = "auto_relay_response"
    /\ \E parsed \in BOOLEAN :
          IF parsed THEN SimReturn(t, "ok_relay") ELSE AutosubmitFallback(t)
    /\ UNCHANGED node
    /\ SimFrame /\ UNCHANGED <<autoVars, libVars>>

\* Lines 223-224: send_raw_transaction of the next raw transaction.
AutosubmitSend(t) ==
    /\ task[t].pc = "auto_send" /\ task[t].i <= Len(task[t].signed_blob)
    /\ LET raw == task[t].signed_blob[task[t].i] IN
       \E answer \in NodeAnswers(raw), cost \in node.costs :
          CASE answer = "refused" ->
                 /\ SimReturn(t, "err_send_raw_failed")
                 /\ UNCHANGED node
            [] answer = "pending" ->
                 /\ task' = [task EXCEPT ![t].pc = "auto_receipt"]
                 /\ UNCHANGED node
            [] OTHER ->
                 /\ node' = [node EXCEPT !.chain =
                                Append(@, Receipt(raw, IF answer = "mined_ok" THEN 1 ELSE 0, cost))]
                 /\ task' = [task EXCEPT ![t].pc = "auto_receipt"]
    /\ SimFrame /\ UNCHANGED <<autoVars, libVars>>

\* Lines 225-228: the wait for the receipt; a receipt of None is left out of
\* the list and the loop goes on.
AutosubmitAwaitReceipt(t) ==
    /\ task[t].pc = "auto_receipt"
    /\ LET raw == task[t].signed_blob[task[t].i] IN
       \E r \in ReceiptAnswers(raw) :
          IF r = "receipt"
          THEN \E receipt \in NodeReceipts(raw) :
                  task' = [task EXCEPT ![t].direct_receipts = Append(@, receipt),
                                       ![t].i = @ + 1,
                                       ![t].pc = "auto_send"]
          ELSE IF r = "err_no_receipt"
          THEN task' = [task EXCEPT ![t].i = @ + 1, ![t].pc = "auto_send"]
          ELSE SimReturn(t, r)
    /\ UNCHANGED node
    /\ SimFrame /\ UNCHANGED <<autoVars, libVars>>

\* Line 230: the receipts are returned.
AutosubmitReturn(t) ==
    /\ task[t].pc = "auto_send" /\ task[t].i > Len(task[t].signed_blob)
    /\ SimReturn(t, "ok_direct")
    /\ UNCHANGED node
    /\ SimFrame /\ UNCHANGED <<autoVars, libVars>>

(***************************************************************************)
(* Simulator: one direct call of simulate_signed_bundle or of              *)
(* autosubmit_signed_bundle                                                *)
(***************************************************************************)
SimTx(n) == Eip1559Tx(Some(n), IF n = 0 THEN None ELSE Some(DefaultGasLimit), Some(1), Some(2))
SimBundles ==
    {<<>>, <<RlpSigned(SimTx(0))>>, <<RlpSigned(SimTx(0)), RlpSigned(SimTx(1))>>}
\* chain and base fee of the fork before the call
SimNodeStates ==
    {EmptyState,
     [chain |-> <<Receipt(RlpSigned(SimTx(7)), 1, TransferCost)>>, base_fee |-> Some(3)]}
SimBaseFee == 5

SimInit ==
    /\ \E st \in SimNodeStates :
          node = [chain |-> st.chain, base_fee |-> st.base_fee, snaps |-> {}, next_id |-> 1,
                  costs |-> NodeCosts]
    /\ rpc \in {"http://127.0.0.1:8545", "not a url"}
    /\ \E blob \in SimBundles, bf \in {None, Some(SimBaseFee)} :
          \/ task = [t \in TaskIds |->
                       IF t = 0
                       THEN [IdleTask EXCEPT !.pc = "sim_start", !.signed_blob = blob, !.bf = bf]
                       ELSE IdleTask]
          \/ /\ bf = None
             /\ task = [t \in TaskIds |->
                          IF t = 0
                          THEN [IdleTask EXCEPT !.pc = "auto_start", !.signed_blob = blob]
                          ELSE IdleTask]
    /\ sweepArgs = [nonce_range |-> 0]
    /\ offset = 0 /\ permits = 0 /\ results = <<>> /\ mpc = "idle" /\ collected = <<>>
    /\ best = None
    /\ AutoIdle /\ LibIdle

SimNext ==
    \/ SimSnapshot(0)
    \/ SimSetBaseFee(0)
    \/ SimSend(0)
    \/ SimAwaitReceipt(0)
    \/ SimRevert(0)
    \/ AutosubmitRelay(0)
    \/ AutosubmitRelayResponse(0)
    \/ AutosubmitSend(0)
    \/ AutosubmitAwaitReceipt(0)
    \/ AutosubmitReturn(0)

SimSpec == SimInit /\ [][SimNext]_vars

\* the call of task t has returned to its caller
SimReturned(t) == task[t].pc = "returned"

\* C1: every call of simulate_signed_bundle whose evm_snapshot succeeded has
\* issued evm_revert with that snapshot's id by the time it returns, on every
\* exit path (a failed send, a receipt timeout, a missing receipt, a failed
\* base-fee call as well as the normal return).
C1_RevertOnEveryExit ==
    \A t \in TaskIds :
        (SimReturned(t) /\ task[t].snap_id.some)
            => task[t].snap_id.val \in task[t].reverts

\* C23: if every transaction of the bundle obtained its receipt and the
\* final evm_revert then fails, simulate_signed_bundle still returns the
\* collected receipts: the call does not become an error.
C23_RevertFailureKeepsReceipts ==
    \A t \in TaskIds :
        (/\ SimReturned(t)
         /\ task[t].i > Len(task[t].signed_blob)
         /\ Len(task[t].receipts) = Len(task[t].signed_blob)
         /\ task[t].snap_id.some /\ task[t].snap_id.val \in task[t].reverts)
            => task[t].ret = "ok"

\* C27: within one simulate_signed_bundle call, transaction i+1 is broadcast
\* only after the receipt of transaction i has been obtained, and on success
\* the returned list has exactly one receipt per transaction, receipt i
\* belonging to transaction i.
C27_SerializedInOrder ==
    \A t \in TaskIds :
        task[t].pc \in {"send", "receipt", "returned"} =>
            /\ task[t].sent <= Len(task[t].receipts) + 1
            /\ Len(task[t].receipts) <= Len(task[t].signed_blob)
            /\ \A j \in 1..Len(task[t].receipts) :
                   task[t].receipts[j].tx = task[t].signed_blob[j]
            /\ (SimReturned(t) /\ task[t].ret = "ok") =>
                   /\ Len(task[t].receipts) = Len(task[t].signed_blob)
                   /\ task[t].sent = Len(task[t].signed_blob)

\* C27 witness: a call with two transactions returned both receipts.
C27_Witness ==
    /\ SimReturned(0) /\ task[0].ret = "ok"
    /\ Len(task[0].signed_blob) = 2 /\ task[0].sent = 2
    /\ task[0].receipts[1].tx = task[0].signed_blob[1]
    /\ task[0].receipts[2].tx = task[0].signed_blob[2]
    /\ task[0].signed_blob[1] # task[0].signed_blob[2]

(***************************************************************************)
(* Simulator: scorer                                                       *)
(***************************************************************************)
\* i128 arithmetic that wraps around (two's complement)
WrapI128(x) == ((x - I128Min) % (U128Max + 1)) + I128Min

\* U256, at a width above that of the modelled u128
U256Bits == WidthBits + 4
U256Max == Pow(2, U256Bits) - 1
\* U256::saturating_mul
U256SatMul(a, b) == IF a = 0 \/ b = 0 THEN 0
                    ELSE IF a > U256Max \div b THEN U256Max ELSE a * b

\* what score returns: a value, or the panic of an arithmetic overflow
ScoreOf(v) == [panicked |-> FALSE, val |-> v]
ScorePanic == [panicked |-> TRUE, val |-> 0]

\* The result of the i128 operators -, +, *, -=, += on the exact result x: a
\* build with overflow checks (debug profile) panics when x is out of range,
\* one without (release profile) wraps around.
I128Op(x, overflow_checks) ==
    IF x >= I128Min /\ x <= I128Max THEN ScoreOf(x)
    ELSE IF overflow_checks THEN ScorePanic
    ELSE ScoreOf(WrapI128(x))

\* lines 30-38 and 68-74: cost_i128 of one receipt
CostI128(r) ==
    LET cost == U256SatMul(r.gas_used, r.effective_gas_price)
    IN  IF cost <= U128Max THEN U128AsI128(cost) ELSE I128Max \div 8

\* i128::MIN / 4
RevertSentinel == -((-I128Min) \div 4)

\* GasCostScorer::score: the loop over the receipts
RECURSIVE GasCostFrom(_, _, _, _)
GasCostFrom(receipts, i, total, overflow_checks) ==
    IF i > Len(receipts) THEN ScoreOf(total)
    ELSE IF receipts[i].status = 0 THEN ScoreOf(RevertSentinel)
    ELSE LET t == I128Op(total - CostI128(receipts[i]), overflow_checks)
         IN  IF t.panicked THEN t
             ELSE GasCostFrom(receipts, i + 1, t.val, overflow_checks)

\* GasCostScorer::score
GasCostScorerScore(receipts, overflow_checks) == GasCostFrom(receipts, 1, 0, overflow_checks)

\* ConfigurableScorer::score: the loop over the receipts (self = w)
RECURSIVE ConfigurableFrom(_, _, _, _, _, _)
ConfigurableFrom(w, receipts, expected_pnl, i, total, overflow_checks) ==
    IF i > Len(receipts) THEN ScoreOf(total)
    ELSE
    LET r == receipts[i]
        t1 == IF r.status = 0 THEN I128Op(total - w.revert_penalty, overflow_checks)
              ELSE ScoreOf(total)
        weighted == I128Op(CostI128(r) * w.gas_weight, overflow_checks)
        t2 == I128Op(t1.val - weighted.val, overflow_checks)
        has_pnl == expected_pnl.some /\ i <= Len(expected_pnl.val)
        gain == IF has_pnl THEN I128Op(expected_pnl.val[i] * w.pnl_weight, overflow_checks)
                ELSE ScoreOf(0)
        t3 == IF has_pnl THEN I128Op(t2.val + gain.val, overflow_checks) ELSE t2
    IN  IF t1.panicked \/ weighted.panicked \/ t2.panicked \/ gain.panicked \/ t3.panicked
        THEN ScorePanic
        ELSE ConfigurableFrom(w, receipts, expected_pnl, i + 1, t3.val, overflow_checks)

\* ConfigurableScorer::score
ConfigurableScorerScore(w, receipts, expected_pnl, overflow_checks) ==
    ConfigurableFrom(w, receipts, expected_pnl, 1, 0, overflow_checks)

\* faulty variant: the sweep hands the scorer an expected PnL of 1 per receipt
SweepScoreWithPnl(scorer, receipts, blob, overflow_checks) ==
    IF scorer.kind = "GasCostScorer" THEN GasCostScorerScore(receipts, overflow_checks)
    ELSE ConfigurableScorerScore(scorer.w, receipts, Some([i \in 1..Len(receipts) |-> 1]),
                                 overflow_checks)

\* Line 167: scorer_cloned.score(&receipts, &signed_blob, None), for the two
\* scorers of the crate (neither reads the signed bundle): the score, or the
\* panic of an overflow in a build with overflow checks.
SweepScore(scorer, receipts, blob, overflow_checks) ==
    IF scorer.kind = "GasCostScorer" THEN GasCostScorerScore(receipts, overflow_checks)
    ELSE ConfigurableScorerScore(scorer.w, receipts, None, overflow_checks)

(***************************************************************************)
(* Simulator: the nonce sweep                                              *)
(* simulate_unsigned_bundle_try_nonces_with_scorer                         *)
(***************************************************************************)
\* u64 (base_nonce, nonce_range and the nonces), at a width below that of the
\* modelled u128
U64Bits == 12
U64Max == Pow(2, U64Bits) - 1

\* a + b of two u64 (lines 158, 163, 168): a build with overflow checks (debug
\* profile) panics when the sum is out of range ("attempt to add with
\* overflow"), one without (release profile) wraps around.
U64Add(a, b, overflow_checks) ==
    IF a + b <= U64Max THEN ScoreOf(a + b)
    ELSE IF overflow_checks THEN ScorePanic
    ELSE ScoreOf((a + b) % (U64Max + 1))

\* set_nonce_tx
SetNonceTx(tx, nonce) ==
    IF tx.variant = "Eip1559" THEN [tx EXCEPT !.nonce = Some(nonce)] ELSE tx

\* results.sort_by_key(|t| t.0): a stable sort by nonce (insertion sort)
RECURSIVE InsertByNonce(_, _)
InsertByNonce(sorted, x) ==
    IF sorted = <<>> THEN <<x>>
    ELSE IF sorted[Len(sorted)].nonce <= x.nonce THEN Append(sorted, x)
    ELSE Append(InsertByNonce(SubSeq(sorted, 1, Len(sorted) - 1), x), sorted[Len(sorted)])
RECURSIVE SortFrom(_, _, _)
SortFrom(s, i, acc) ==
    IF i > Len(s) THEN acc ELSE SortFrom(s, i + 1, InsertByNonce(acc, s[i]))
SortByNonce(s) == SortFrom(s, 1, <<>>)

SweepTxA == Eip1559Tx(None, Some(21000), Some(1), Some(2))
SweepTxB == Eip1559Tx(Some(0), None, Some(1), Some(3))
SweepTxL == LegacyTx(Some(7), Some(21000), Some(2))
SweepBundles == {<<SweepTxA>>, <<SweepTxL, SweepTxB>>}
SweepBaseNonce == 100

\* The scorers handed to the sweep: GasCostScorer, and ConfigurableScorers that
\* differ in pnl_weight only.
SweepPnlWeights == {0, 3}
SweepScorers ==
    {[kind |-> "GasCostScorer", w |-> [revert_penalty |-> 0, gas_weight |-> 0, pnl_weight |-> 0]]}
    \cup {[kind |-> "ConfigurableScorer",
           w |-> [revert_penalty |-> 100, gas_weight |-> 1, pnl_weight |-> p]] :
              p \in SweepPnlWeights}

\* the sweeps explored against a node that reports every cost of NodeCosts:
\* those of the bundle of one transaction over one permit, at most two offsets
WideCosts(a) ==
    /\ a.signer = "RemoteBasedSigner" /\ a.set_next_block_base_fee = None
    /\ a.concurrency = 1 /\ a.nonce_range <= 2 /\ Len(a.unsigned_txs) = 1
    /\ a.base_nonce = SweepBaseNonce

\* the sweeps explored from the largest base nonce: GasCostScorer over one
\* permit, at most two offsets
HighNonce(a) ==
    /\ a.base_nonce = U64Max
    /\ a.signer = "RemoteBasedSigner" /\ a.set_next_block_base_fee = None
    /\ a.concurrency = 1 /\ a.nonce_range <= 2 /\ a.scorer.kind = "GasCostScorer"

\* The calls explored, each with the build profile of the program
\* (overflow_checks: the debug profile checks the integer arithmetic, the
\* release profile does not, and the two differ on the costs of WideCosts
\* and on the nonces of HighNonce only): at most MaxSweepTxs transactions are signed per sweep, and
\* nonce_range times concurrency is at most MaxSweepWork.  The sweep hands
\* its scorer to the tasks and does nothing else with it: the
\* ConfigurableScorers are explored with two offsets and one permit; the
\* InMemorySigner and the base fee with one offset.
SweepInputs ==
    {a \in [unsigned_txs : SweepBundles,
            signer : Signers,
            base_nonce : {SweepBaseNonce, U64Max},
            nonce_range : 0..MaxNonceRange,
            concurrency : 0..MaxConcurrency,
            scorer : SweepScorers,
            set_next_block_base_fee : {None, Some(SimBaseFee)},
            overflow_checks : BOOLEAN] :
        /\ Len(a.unsigned_txs) * a.nonce_range <= MaxSweepTxs
        /\ a.nonce_range * a.concurrency <= MaxSweepWork
        /\ a.scorer.kind = "ConfigurableScorer" =>
               /\ a.nonce_range = 2
               /\ a.concurrency = 1 /\ a.set_next_block_base_fee = None
               /\ a.signer = "RemoteBasedSigner"
        /\ a.signer = "InMemorySigner" =>
               /\ a.unsigned_txs = <<SweepTxL, SweepTxB>> /\ a.nonce_range = 1
               /\ a.concurrency = 1 /\ a.set_next_block_base_fee = None
        /\ a.set_next_block_base_fee # None => a.nonce_range = 1
        /\ a.base_nonce = U64Max => HighNonce(a)
        /\ ~a.overflow_checks => WideCosts(a) \/ HighNonce(a)}

\* The node a sweep runs against reports every cost of NodeCosts in the
\* sweeps of WideCosts, and the cost of a transfer in the others.
SweepNodeCosts(a) == IF WideCosts(a) THEN NodeCosts ELSE {TransferCost}

SweepInit ==
    /\ sweepArgs \in SweepInputs
    /\ node = [chain |-> <<>>, base_fee |-> None, snaps |-> {}, next_id |-> 1,
               costs |-> SweepNodeCosts(sweepArgs)]
    /\ rpc = "http://127.0.0.1:8545"
    /\ task = [t \in TaskIds |-> IdleTask]
    /\ offset = 0
    /\ permits = sweepArgs.concurrency
    /\ results = <<>>
    /\ mpc = "run"
    /\ collected = <<>>
    /\ best = None
    /\ AutoIdle /\ LibIdle

SweepFrame == UNCHANGED <<node, rpc, sweepArgs, best>> /\ UNCHANGED <<autoVars, libVars>>

\* Line 158: `current = base_nonce + offset` of the task of offset t, the
\* first thing the task does
StartNonce(t) == U64Add(sweepArgs.base_nonce, t, sweepArgs.overflow_checks)

\* faulty variant: the task is spawned without waiting for a permit
SpawnWithoutPermit ==
    /\ mpc = "run" /\ offset < sweepArgs.nonce_range
    /\ permits' = permits - 1
    /\ task' = [task EXCEPT ![offset] =
                   [IdleTask EXCEPT !.pc = IF sweepArgs.unsigned_txs = <<>> /\ ~StartNonce(offset).panicked
                                           THEN "sim_start"
                                           ELSE "sign",
                                    !.spawned = TRUE,
                                    !.bf = sweepArgs.set_next_block_base_fee]]
    /\ offset' = offset + 1
    /\ UNCHANGED <<results, mpc, collected>>
    /\ SweepFrame

\* Lines 146-153: one iteration of `for offset in 0..nonce_range`: a permit is
\* acquired (the loop waits while none is free) and the task is spawned.
Spawn ==
    /\ mpc = "run" /\ offset < sweepArgs.nonce_range
    /\ permits > 0
    /\ permits' = permits - 1
    /\ task' = [task EXCEPT ![offset] =
                   [IdleTask EXCEPT !.pc = IF sweepArgs.unsigned_txs = <<>> /\ ~StartNonce(offset).panicked
                                           THEN "sim_start"
                                           ELSE "sign",
                                    !.spawned = TRUE,
                                    !.bf = sweepArgs.set_next_block_base_fee]]
    /\ offset' = offset + 1
    /\ UNCHANGED <<results, mpc, collected>>
    /\ SweepFrame

\* Lines 158-164: one iteration of `for tx in unsigned.iter()` of the task of
\* offset t: the next transaction gets the nonce `current` and is handed to
\* the signer; the signer may fail, which ends the task (its permit is
\* dropped); after the last transaction the simulation starts.  `current` is a
\* u64: the sum of line 158 and the `current += 1` that follows every push
\* (the last one too) wrap around in a build without overflow checks and
\* panic in a build with them, which ends the task as well.
SignNext(t) ==
    /\ task[t].pc = "sign"
    /\ LET unsigned == sweepArgs.unsigned_txs
           done == Len(task[t].handed)
       IN  IF StartNonce(t).panicked
           THEN /\ task' = [task EXCEPT ![t].pc = "finished", ![t].ret = "panic_nonce"]
                /\ permits' = permits + 1
           ELSE
           LET current == (StartNonce(t).val + done) % (U64Max + 1)
               tx_with_nonce == SetNonceTx(unsigned[done + 1], current)
               next == U64Add(current, 1, sweepArgs.overflow_checks)
           IN  \E signs \in {TRUE} \cup (IF SignerMayFail(sweepArgs.signer) THEN {FALSE} ELSE {}) :
                  IF ~signs
                  THEN /\ task' = [task EXCEPT ![t].pc = "finished", ![t].ret = "err_sign",
                                               ![t].handed = Append(@, tx_with_nonce)]
                       /\ permits' = permits + 1
                  ELSE IF next.panicked
                  THEN /\ task' = [task EXCEPT ![t].pc = "finished", ![t].ret = "panic_nonce",
                                               ![t].handed = Append(@, tx_with_nonce)]
                       /\ permits' = permits + 1
                  ELSE /\ task' = [task EXCEPT
                              ![t].pc = IF done + 1 = Len(unsigned) THEN "sim_start" ELSE "sign",
                              ![t].handed = Append(@, tx_with_nonce),
                              ![t].signed_blob = Append(@, SignTyped(sweepArgs.signer, tx_with_nonce))]
                       /\ permits' = permits
    /\ UNCHANGED <<offset, results, mpc, collected>>
    /\ SweepFrame

\* Lines 166-168: what the task of offset t ends with once
\* simulate_signed_bundle has returned: an error of which only the text is
\* kept, the panic of the scorer (the task's JoinError), or the tuple with
\* the score.  The task's other locals are dropped.
TaskResult(t) ==
    LET score == SweepScore(sweepArgs.scorer, task[t].receipts, task[t].signed_blob,
                            sweepArgs.overflow_checks)
    IN  IF task[t].ret # "ok"
        THEN [IdleTask EXCEPT !.pc = "finished", !.spawned = TRUE, !.ret = "err_simulation"]
        ELSE IF score.panicked
        THEN [IdleTask EXCEPT !.pc = "finished", !.spawned = TRUE, !.ret = "panic"]
        ELSE [IdleTask EXCEPT !.pc = "finished", !.spawned = TRUE,
                              !.ret = "ok",
                              !.signed_blob = task[t].signed_blob,
                              !.receipts = task[t].receipts,
                              !.score = score.val]

\* faulty variant: the task ends and its permit is never given back
TaskFinishKeepingPermit(t) ==
    /\ task[t].pc = "returned" /\ task[t].spawned
    /\ task' = [task EXCEPT ![t] = TaskResult(t)]
    /\ permits' = permits
    /\ UNCHANGED <<offset, results, mpc, collected>>
    /\ SweepFrame

\* Lines 166-169: simulate_signed_bundle has returned to the task, which
\* scores the receipts and ends, by its return or by the scorer's panic; its
\* permit is dropped either way.
TaskFinish(t) ==
    /\ task[t].pc = "returned" /\ task[t].spawned
    /\ task' = [task EXCEPT ![t] = TaskResult(t)]
    /\ permits' = permits + 1
    /\ UNCHANGED <<offset, results, mpc, collected>>
    /\ SweepFrame

\* Line 168: the tuple an offset task returns; its nonce is the sum of line
\* 158 once more
Outcome(t) ==
    [nonce |-> StartNonce(t).val, score |-> task[t].score,
     receipts |-> task[t].receipts, signed_blob |-> task[t].signed_blob]

\* faulty variant: the first failed task ends the sweep
CollectOrAbort(t) ==
    /\ mpc = "run" /\ offset = sweepArgs.nonce_range
    /\ task[t].pc = "finished" /\ t \notin Range(collected)
    /\ results' = IF task[t].ret = "ok" THEN Append(results, Outcome(t)) ELSE results
    /\ mpc' = IF task[t].ret = "ok" THEN mpc ELSE "returned"
    /\ collected' = Append(collected, t)
    /\ task' = [task EXCEPT ![t] = [IdleTask EXCEPT !.pc = "joined", !.spawned = TRUE,
                                                    !.ret = task[t].ret]]
    /\ UNCHANGED <<offset, permits>>
    /\ SweepFrame

\* Lines 173-179: `futs.next()` yields a finished task, in any order; its
\* tuple is kept, its error is logged ("attempt failed"), and so is the
\* JoinError of a task that panicked ("task join error").
Collect(t) ==
    /\ mpc = "run" /\ offset = sweepArgs.nonce_range
    /\ task[t].pc = "finished" /\ t \notin Range(collected)
    /\ results' = IF task[t].ret = "ok" THEN Append(results, Outcome(t)) ELSE results
    /\ collected' = Append(collected, t)
    /\ task' = [task EXCEPT ![t] = [IdleTask EXCEPT !.pc = "joined", !.spawned = TRUE,
                                                    !.ret = task[t].ret]]
    /\ UNCHANGED <<offset, permits, mpc>>
    /\ SweepFrame

\* Lines 173, 181-183: `futs` is empty: the results are sorted and returned.
SweepReturn ==
    /\ mpc = "run" /\ offset = sweepArgs.nonce_range
    /\ Len(collected) = sweepArgs.nonce_range
    /\ results' = SortByNonce(results)
    /\ mpc' = "returned"
    /\ UNCHANGED <<task, offset, permits, collected>>
    /\ SweepFrame

\* faulty variant: a later outcome of equal score replaces the best one
RECURSIVE BestFromGe(_, _, _)
BestFromGe(rs, i, b) ==
    IF i > Len(rs) THEN b
    ELSE BestFromGe(rs, i + 1,
             IF ~b.some THEN Some(rs[i])
             ELSE IF rs[i].score >= b.val.score THEN Some(rs[i]) ELSE b)
BestOfGe(rs) == BestFromGe(rs, 1, None)

\* sim.rs 198-209: the loop over the sweep's results, `best` replaced only by
\* a strictly greater score.
RECURSIVE BestFrom(_, _, _)
BestFrom(rs, i, b) ==
    IF i > Len(rs) THEN b
    ELSE BestFrom(rs, i + 1,
             IF ~b.some THEN Some(rs[i])
             ELSE IF rs[i].score > b.val.score THEN Some(rs[i]) ELSE b)
BestOf(rs) == BestFrom(rs, 1, None)

\* Lines 196-210: choose_best_nonce_strategy, after its sweep returned.
ChooseBest ==
    /\ mpc = "returned"
    /\ best' = BestOf(results)
    /\ mpc' = "chosen"
    /\ UNCHANGED <<node, rpc, sweepArgs, task, offset, permits, results, collected>>
    /\ UNCHANGED <<autoVars, libVars>>

SweepNext ==
    \/ Spawn
    \/ SweepReturn
    \/ ChooseBest
    \/ \E t \in TaskIds :
          \/ SignNext(t)
          \/ SimSnapshot(t)
          \/ SimSetBaseFee(t)
          \/ SimSend(t)
          \/ SimAwaitReceipt(t)
          \/ SimRevert(t)
          \/ TaskFinish(t)
          \/ Collect(t)

SweepSpec == SweepInit /\ [][SweepNext]_vars

\* The runtime schedules the sweep's loop and every spawned task, and every
\* call to the node and to the signer is answered: a step that stays possible
\* is eventually taken.
SweepLiveSpec == SweepSpec /\ WF_vars(SweepNext)

(***************************************************************************)
(* Nonce sweep: claims                                                     *)
(***************************************************************************)
\* C9: in the sweep of offset k, the i-th transaction (counting from 0) handed
\* to the signer carries the nonce base_nonce + k + i, whatever its variant.
C9_HandedNonces ==
    \A t \in TaskIds : \A i \in 1..Len(task[t].handed) :
        task[t].handed[i].nonce = Some(sweepArgs.base_nonce + t + (i - 1))

\* every offset of 0..nonce_range-1 succeeded: its task returned its tuple
AllOffsetsSucceeded ==
    \A t \in 0..(sweepArgs.nonce_range - 1) : task[t].ret = "ok"

\* C10: the returned list is strictly ascending by nonce, whatever the order
\* in which the offset tasks were collected; when all nonce_range = n offsets
\* succeed it has exactly n entries, with the nonces base_nonce, ...,
\* base_nonce + n - 1.
C10_SortedByNonce ==
    mpc = "returned" =>
        /\ \A i \in 1..(Len(results) - 1) : results[i].nonce < results[i + 1].nonce
        /\ AllOffsetsSucceeded =>
              /\ Len(results) = sweepArgs.nonce_range
              /\ \A i \in 1..Len(results) : results[i].nonce = sweepArgs.base_nonce + (i - 1)

\* every offset of a sweep of MaxNonceRange offsets succeeded, and the tasks
\* were collected in descending order of their nonces
C10_Witness ==
    /\ mpc = "returned"
    /\ sweepArgs.nonce_range = MaxNonceRange
    /\ AllOffsetsSucceeded
    /\ \A i \in 1..(Len(collected) - 1) : collected[i] > collected[i + 1]

\* offsets of the sweep, those whose task returned its tuple, and those whose
\* signing and simulation succeeded (the task reached the scorer)
Offsets == 0..(sweepArgs.nonce_range - 1)
Succeeded == {t \in Offsets : task[t].ret = "ok"}
SignedAndSimulated == {t \in Offsets : task[t].ret \in {"ok", "panic"}}
SweepReturned == mpc \in {"returned", "chosen"}

\* C11: a failed offset does not end the sweep: when the sweep returns, every
\* offset was attempted and collected, and the returned list holds exactly
\* the offsets whose signing and simulation succeeded, once each.
C11_FailuresDoNotAbort ==
    SweepReturned =>
        /\ \A t \in Offsets : task[t].pc = "joined"
        /\ {results[i].nonce : i \in 1..Len(results)}
               = {sweepArgs.base_nonce + t : t \in SignedAndSimulated}
        /\ Len(results) = Cardinality(SignedAndSimulated)

\* the first offset failed to sign, the second failed in simulation, the
\* third succeeded and is the only one returned
C11_Witness ==
    /\ mpc = "returned" /\ sweepArgs.nonce_range = 3
    /\ task[0].ret = "err_sign" /\ task[1].ret = "err_simulation"
    /\ task[2].ret = "ok" /\ Len(results) = 1

\* offset tasks that have started and not finished
InFlight == {t \in TaskIds : task[t].pc \in {"sign", "sim_start", "base_fee", "send",
                                             "receipt", "returned"}}

\* C12: during a sweep the number of offset tasks that have started and not
\* yet finished is at most `concurrency`.
C12_ConcurrencyBound ==
    mpc # "idle" => Cardinality(InFlight) <= sweepArgs.concurrency

\* `concurrency` tasks are in flight and a further offset waits for a permit
C12_Witness ==
    /\ mpc = "run" /\ sweepArgs.concurrency = MaxConcurrency
    /\ Cardinality(InFlight) = MaxConcurrency
    /\ offset < sweepArgs.nonce_range

\* the nonce of offset t: base_nonce + t as a u64
ClaimNonce(t) == (sweepArgs.base_nonce + t) % (U64Max + 1)

\* C13: choose_best_nonce_strategy returns none exactly when no offset
\* succeeded; otherwise a successful outcome of maximum score, and among the
\* outcomes of that score the one with the lowest nonce.
C13_BestIsMaxLowestNonce ==
    mpc = "chosen" =>
        /\ ~best.some <=> Succeeded = {}
        /\ best.some =>
              /\ \E i \in 1..Len(results) : results[i] = best.val
              /\ \E t \in Succeeded : best.val.nonce = ClaimNonce(t)
              /\ \A i \in 1..Len(results) :
                    /\ results[i].score <= best.val.score
                    /\ results[i].score = best.val.score
                           => best.val.nonce <= results[i].nonce

\* three outcomes share the maximum score: the lowest nonce is chosen
C13_Witness ==
    /\ mpc = "chosen" /\ best.some /\ Len(results) = 3
    /\ \A i \in 1..Len(results) : results[i].score = best.val.score
    /\ best.val.nonce = sweepArgs.base_nonce

\* the outcome of the higher nonce scores more than that of the lower nonce
\* (whose bundle reverted) and is chosen
LaterOutcomeChosen ==
    /\ mpc = "chosen" /\ best.some /\ Len(results) = 2
    /\ results[1].score < results[2].score /\ best.val = results[2]

\* C36: a sweep with concurrency >= 1 returns, and only after each of its
\* nonce_range tasks has finished and given its permit back, whether the task
\* succeeded or failed: a permit is held exactly by the tasks in flight.  With
\* concurrency 0 and nonce_range >= 1 the first acquisition of a permit never
\* completes: no task is spawned and the sweep never returns.
C36_ReturnsOrBlocksForever ==
    /\ [](mpc # "idle" =>
             /\ permits + Cardinality(InFlight) = sweepArgs.concurrency
             /\ (sweepArgs.concurrency >= 1 /\ SweepReturned) =>
                    /\ \A t \in Offsets : task[t].pc = "joined"
                    /\ permits = sweepArgs.concurrency
             /\ (sweepArgs.concurrency = 0 /\ sweepArgs.nonce_range >= 1) =>
                    /\ ~SweepReturned /\ offset = 0
                    /\ \A t \in TaskIds : ~task[t].spawned)
    /\ (mpc = "run" /\ sweepArgs.concurrency >= 1) ~> SweepReturned

\* a sweep of three offsets over one permit has returned: one task failed to
\* sign, one failed in simulation, one succeeded, and the permit is free again
C36_Witness ==
    /\ mpc = "returned" /\ sweepArgs.concurrency = 1 /\ sweepArgs.nonce_range = 3
    /\ permits = 1
    /\ \E t1, t2, t3 \in Offsets :
          /\ task[t1].ret = "err_sign" /\ task[t2].ret = "err_simulation"
          /\ task[t3].ret = "ok"

(***************************************************************************)
(* Signatures: the curve                                                   *)
(*                                                                         *)
(* secp256k1 is y^2 = x^3 + 7 over a prime field, a group of prime order   *)
(* smaller than the field's size.  The model keeps the equation and that   *)
(* shape with a field of FieldP elements and a group of order curve_n, so  *)
(* that signing and public-key recovery are computed, not assumed.         *)
(***************************************************************************)
FieldP == 43
\* `curve_n`, the order of the group
curve_n == 31
\* `half_n`
half_n == curve_n \div 2

\* inverse of a modulo the prime m (a not a multiple of m)
ModInv(a, m) == CHOOSE x \in 1..(m - 1) : (a * x) % m = 1

Infinity == [inf |-> TRUE, x |-> 0, y |-> 0]
Point(x, y) == [inf |-> FALSE, x |-> x, y |-> y]
Generator == Point(2, 12)
OnCurve(x, y) == (y * y) % FieldP = (x * x * x + 7) % FieldP

PtNeg(P) == IF P.inf THEN P ELSE Point(P.x, (FieldP - P.y) % FieldP)

PtAdd(P, Q) ==
    IF P.inf THEN Q
    ELSE IF Q.inf THEN P
    ELSE IF P.x = Q.x /\ (P.y + Q.y) % FieldP = 0 THEN Infinity
    ELSE LET lam == IF P = Q
                    THEN (3 * P.x * P.x * ModInv((2 * P.y) % FieldP, FieldP)) % FieldP
                    ELSE ((Q.y - P.y) * ModInv((Q.x - P.x) % FieldP, FieldP)) % FieldP
             x3 == (lam * lam - P.x - Q.x) % FieldP
         IN  Point(x3, (lam * (P.x - x3) - P.y) % FieldP)

RECURSIVE PtMul(_, _)
PtMul(k, P) == IF k = 0 THEN Infinity ELSE PtAdd(PtMul(k - 1, P), P)

\* the public key of a secret key, and its address (keccak256 of the
\* uncompressed key, last 20 bytes: one address per key)
PublicKey(sk) == PtMul(sk, Generator)
AddressOf(pk) == [address |-> <<pk.x, pk.y>>]

\* ECDSA by the holder of sk over the digest z with the nonce k: r, s and the
\* recovery id of the nonce point (bit 0: y is odd, bit 1: x >= curve_n).
\* No signature comes out when r or s is 0.
EcdsaSign(sk, z, k) ==
    LET R == PtMul(k, Generator)
        r == R.x % curve_n
        s == (ModInv(k, curve_n) * (z + r * sk)) % curve_n
    IN  [ok |-> r # 0 /\ s # 0, r |-> r, s |-> s,
         recid |-> (R.y % 2) + (IF R.x >= curve_n THEN 2 ELSE 0)]

\* secp.recover_ecdsa of the compact signature (r, s) with recovery id recid
\* over the digest z: the public key, or None.
RecoverEcdsa(z, r, s, recid) ==
    IF r = 0 \/ s = 0 \/ r >= curve_n \/ s >= curve_n THEN None
    ELSE IF recid >= 2 /\ r >= FieldP - curve_n THEN None
    ELSE LET x == IF recid >= 2 THEN r + curve_n ELSE r
             ys == {y \in 0..(FieldP - 1) : OnCurve(x, y) /\ y % 2 = recid % 2}
         IN  IF ys = {} THEN None
             ELSE LET R == Point(x, CHOOSE y \in ys : TRUE)
                      rn == ModInv(r, curve_n)
                      u1 == (curve_n - ((rn * z) % curve_n)) % curve_n
                      u2 == (rn * s) % curve_n
                      Q == PtAdd(PtMul(u1, Generator), PtMul(u2, R))
                  IN  IF Q.inf THEN None ELSE Some(Q)

\* the node state before the sweep
PreSweepState == EmptyState

\* C35: in a sweep with concurrency >= 2, whatever the interleaving of the
\* offset tasks' snapshot, broadcast and revert steps, every offset's
\* simulation starts from the pre-sweep node state, and once the sweep has
\* returned the node state is the pre-sweep state again.
C35_OffsetsIsolated ==
    sweepArgs.concurrency >= 2 =>
        /\ \A t \in TaskIds :
              (task[t].spawned /\ task[t].snap_id.some) => task[t].at_snapshot = PreSweepState
        /\ SweepReturned => NodeState = PreSweepState

(***************************************************************************)
(* Signatures: der_to_ethers_signature and RemoteBasedSigner               *)
(***************************************************************************)
\* Bytes a remote signer answers with: a DER signature, or raw bytes of some
\* length (r || s || v when 65, r || s when 64).  `head`, `tail` and `last`
\* are the numbers the bytes 0..32, the bytes 32..64 and the byte 64 hold:
\* r, s and v for raw bytes.
RawBytes(len, r, s, v) ==
    [fmt |-> "raw", len |-> len, r |-> r, s |-> s, v |-> v,
     head |-> r, tail |-> s, last |-> v]
\* A DER signature of r and s whose encoding is len bytes long (short r or s).
\* Its first and second 32 bytes hold the DER header, r and most of s: the
\* numbers head and tail, which the scalars of the reduced curve cannot carry
\* and which are therefore given with the bytes; the last byte of a DER
\* signature is the last byte of s.
DerBytesOfLen(len, r, s, head, tail) ==
    [fmt |-> "der", len |-> len, r |-> r, s |-> s, v |-> 0,
     head |-> head, tail |-> tail, last |-> s % 256]
\* a DER signature of the usual length
DerBytes(r, s) == DerBytesOfLen(70, r, s, 0, 0)

\* a 32-byte digest (or a hash of another length) standing for the number z
Digest(len, z) == [len |-> len, z |-> z]

Signature(r, s, v) == [r |-> r, s |-> s, v |-> v]
SigOk(sig, recid) == [ok |-> TRUE, err |-> "", sig |-> sig, recid |-> recid]
SigErr(text) == [ok |-> FALSE, err |-> text, sig |-> Signature(0, 0, 0), recid |-> 0]

\* k256 Signature::from_der: r and s must be scalars other than 0
FromDer(bytes) ==
    bytes.fmt = "der" /\ bytes.r \in 1..(curve_n - 1) /\ bytes.s \in 1..(curve_n - 1)

\* der.rs 34-42: low-s canonical form
LowS(r, s, v) ==
    IF s > half_n
    THEN Signature(r, IF curve_n >= s THEN curve_n - s ELSE 0, IF v = 27 THEN 28 ELSE 27)
    ELSE Signature(r, s, v)

\* der.rs 33: the recovered key is the expected one (or none is expected)
AddressAccepted(expected_address, pk) ==
    ~expected_address.some \/ expected_address.val = AddressOf(pk)

\* der.rs 25-48: the loop over the recovery ids
RECURSIVE DerRecoverFrom(_, _, _, _, _)
DerRecoverFrom(r, s, z, expected_address, recid_val) ==
    IF recid_val >= 4 THEN SigErr("unable to recover public key from signature")
    ELSE LET pk == RecoverEcdsa(z, r, s, recid_val)
         IN  IF pk.some /\ AddressAccepted(expected_address, pk.val)
             THEN SigOk(LowS(r, s, recid_val + 27), recid_val)
             ELSE DerRecoverFrom(r, s, z, expected_address, recid_val + 1)

\* der_to_ethers_signature(der_sig, msg_hash, expected_address)
DerToEthersSignature(der_sig, msg_hash, expected_address) ==
    IF ~FromDer(der_sig) THEN SigErr("invalid der signature")
    ELSE IF msg_hash.len # 32 THEN SigErr("message hash must be 32 bytes")
    ELSE DerRecoverFrom(der_sig.r, der_sig.s, msg_hash.z, expected_address, 0)

\* signer.rs 130-146: the first recovery id under which some key is recovered
RECURSIVE CompactRecoverFrom(_, _, _, _)
CompactRecoverFrom(r, s, z, recid_val) ==
    IF recid_val >= 4 THEN SigErr("could not recover signature")
    ELSE IF RecoverEcdsa(z, r, s, recid_val).some
         THEN SigOk(Signature(r, s, recid_val + 27), recid_val)
         ELSE CompactRecoverFrom(r, s, z, recid_val + 1)

\* faulty variant: the length of the answer is looked at before DER is tried
EthersSigLengthFirst(sig_bytes, sighash) ==
    LET maybe_sig == DerToEthersSignature(sig_bytes, sighash, None)
    IN  IF sig_bytes.len = 65
        THEN SigOk(Signature(sig_bytes.head, sig_bytes.tail, sig_bytes.last), 0)
        ELSE IF sig_bytes.len = 64
             THEN CompactRecoverFrom(sig_bytes.head, sig_bytes.tail, sighash.z, 0)
        ELSE IF maybe_sig.ok THEN maybe_sig
        ELSE SigErr("unsupported signature format from remote")

\* signer.rs 111-151: the signature made of the remote signer's bytes: the
\* one der_to_ethers_signature returns, or, when it returns an error (the
\* bytes are not DER, or they are and no key is recovered), the one read
\* from the bytes themselves by their length.
EthersSig(sig_bytes, sighash) ==
    LET maybe_sig == DerToEthersSignature(sig_bytes, sighash, None)
    IN  IF maybe_sig.ok THEN maybe_sig
        ELSE IF sig_bytes.len = 65
             THEN SigOk(Signature(sig_bytes.head, sig_bytes.tail, sig_bytes.last), 0)
        ELSE IF sig_bytes.len = 64
             THEN CompactRecoverFrom(sig_bytes.head, sig_bytes.tail, sighash.z, 0)
        ELSE SigErr("unsupported signature format from remote")

\* signer.rs 154-160: v as a parity for EIP-1559 transactions
NormalizedSig(tx, ethers_sig) ==
    IF tx.variant = "Eip1559"
    THEN Signature(ethers_sig.r, ethers_sig.s,
                   IF ethers_sig.v >= 27 THEN ethers_sig.v - 27 ELSE ethers_sig.v)
    ELSE ethers_sig

\* tx.rlp_signed(&normalized_sig)
RlpSignedWith(tx, sig) == [rlp |-> tx, sig |-> sig]

(***************************************************************************)
(* Signatures: one call of der_to_ethers_signature, or one call of         *)
(* RemoteBasedSigner::sign_typed_transaction with its remote signer        *)
(***************************************************************************)
SgKeys == 1..(curve_n - 1)
SgDigests == {0, 9}
SgTxs == {Eip1559Tx(Some(0), Some(DefaultGasLimit), Some(1), Some(2)),
          LegacyTx(Some(0), Some(DefaultGasLimit), Some(2))}

\* the same signature with the other s: it verifies under the same key, with
\* the parity of the recovery id toggled
OtherS(e) ==
    [e EXCEPT !.s = curve_n - e.s,
              !.recid = IF e.recid % 2 = 0 THEN e.recid + 1 ELSE e.recid - 1]

\* the signatures the holder of sk can give over z, low s or high s
HonestSigs(sk, z) ==
    LET made == {EcdsaSign(sk, z, k) : k \in 1..(curve_n - 1)}
        good == {e \in made : e.ok}
    IN  good \cup {OtherS(e) : e \in good}

\* no point of the curve has the x coordinate UnrecoverableR (or that plus
\* curve_n): a signature with this r recovers no key
UnrecoverableR == 27
\* what the first and the second 32 bytes of a DER signature may read as: a
\* pair that recovers a key as r || s, and one that does not
DerReadings == {<<2, 3>>, <<UnrecoverableR, 14>>}

\* bytes that parse as a DER signature from which no key is recovered, of 64,
\* of 65 and of 70 bytes
DerUnrecovered ==
    {DerBytesOfLen(len, UnrecoverableR, s, p[1], p[2]) :
        len \in {64, 65, 70}, s \in {14, 29}, p \in DerReadings}

\* what sign_digest of the remote signer may return for the key sk: one of
\* its signatures as DER (among them encodings of 65 and of 64 bytes), as
\* r || s, as r || s || v (v the recovery id, or the recovery id plus 27),
\* bytes of another format, or DER from which no key is recovered
RemoteAnswers(sk, z) ==
    UNION {{DerBytes(e.r, e.s), DerBytesOfLen(65, e.r, e.s, 2, 3),
            DerBytesOfLen(64, e.r, e.s, 2, 3),
            RawBytes(64, e.r, e.s, 0),
            RawBytes(65, e.r, e.s, e.recid), RawBytes(65, e.r, e.s, e.recid + 27)}
           : e \in HonestSigs(sk, z)}
    \cup {RawBytes(63, 0, 0, 0), DerBytes(0, 1)}
    \cup DerUnrecovered

\* DER inputs of a direct call: signatures of the key, and malformed ones
DerInputs(sk, z) ==
    {DerBytes(e.r, e.s) : e \in HonestSigs(sk, z)}
    \cup {DerBytes(0, 1), DerBytes(1, 0), DerBytes(curve_n, 1), RawBytes(64, 1, 1, 0)}

NoBytes == RawBytes(0, 0, 0, 0)
NoRaw == RlpSignedWith(Eip2930Tx(None, None, None), Signature(0, 0, 0))

SigInit ==
    /\ \E sk \in SgKeys, z \in SgDigests :
          \/ \E tx \in SgTxs :
                sg = [pc |-> "start", op |-> "sign_typed_transaction", key |-> sk,
                      tx |-> tx, digest |-> Digest(32, z), expected |-> None,
                      bytes |-> NoBytes, ret |-> SigErr(""), raw |-> NoRaw]
          \/ \E len \in {32, 20} :
                sg = [pc |-> "start", op |-> "der_to_ethers_signature", key |-> sk,
                      tx |-> Eip2930Tx(None, None, None), digest |-> Digest(len, z),
                      expected |-> None,
                      bytes |-> NoBytes, ret |-> SigErr(""), raw |-> NoRaw]
    /\ rl = [pc |-> "idle"] /\ sc = [pc |-> "idle"] /\ scanner = [pc |-> "idle"]
    /\ AutoIdle /\ SimIdle

SigFrame == UNCHANGED <<autoVars, simVars, rl, sc, scanner>>

\* signer.rs 105-106: the sighash is sent to the remote signer, which answers
\* with a signature of its key in some format, or fails.
SignDigest ==
    /\ sg.pc = "start" /\ sg.op = "sign_typed_transaction"
    /\ \/ \E sig_bytes \in RemoteAnswers(sg.key, sg.digest.z) :
             sg' = [sg EXCEPT !.pc = "reconstruct", !.bytes = sig_bytes]
       \/ sg' = [sg EXCEPT !.pc = "done", !.ret = SigErr("remote sign failed")]
    /\ SigFrame

\* signer.rs 108-164: the signature is reconstructed, normalized and put
\* into the signed transaction.
Reconstruct ==
    /\ sg.pc = "reconstruct"
    /\ LET ethers_sig == EthersSig(sg.bytes, sg.digest)
           normalized_sig == NormalizedSig(sg.tx, ethers_sig.sig)
       IN  sg' = IF ethers_sig.ok
                 THEN [sg EXCEPT !.pc = "done",
                                 !.ret = SigOk(normalized_sig, ethers_sig.recid),
                                 !.raw = RlpSignedWith(sg.tx, normalized_sig)]
                 ELSE [sg EXCEPT !.pc = "done", !.ret = ethers_sig]
    /\ SigFrame

\* one direct call of der_to_ethers_signature
DerToEthers ==
    /\ sg.pc = "start" /\ sg.op = "der_to_ethers_signature"
    /\ \E der_sig \in DerInputs(sg.key, sg.digest.z),
          expected_address \in {None, Some(AddressOf(PublicKey(sg.key))),
                                Some(AddressOf(PublicKey((sg.key % (curve_n - 1)) + 1)))} :
          sg' = [sg EXCEPT !.pc = "done", !.bytes = der_sig,
                           !.expected = expected_address,
                           !.ret = DerToEthersSignature(der_sig, sg.digest, expected_address)]
    /\ SigFrame

SigNext == SignDigest \/ Reconstruct \/ DerToEthers

SigSpec == SigInit /\ [][SigNext]_vars

(***************************************************************************)
(* Signatures: claims                                                      *)
(***************************************************************************)
SgReturnedOk(op) == sg.pc = "done" /\ sg.op = op /\ sg.ret.ok

\* the address an Ethereum node recovers from (r, s, v) over the digest z:
\* v is 27 or 28, or the parity 0 or 1 of a typed transaction
ClaimRecovered(sig, z) ==
    IF sig.v \notin {0, 1, 27, 28} THEN None
    ELSE LET pk == RecoverEcdsa(z, sig.r, sig.s, sig.v % 27)
         IN  IF pk.some THEN Some(AddressOf(pk.val)) ELSE None

\* C14: every signature made from a remote signer's answer has s <= N/2: the
\* one der_to_ethers_signature returns and the one RemoteBasedSigner signs
\* the transaction with, whether the answer was DER, 65 bytes or 64 bytes.
C14_LowSOnEveryPath ==
    (sg.pc = "done" /\ sg.ret.ok) => sg.ret.sig.s <= half_n

\* C15: the signature RemoteBasedSigner puts into the signed transaction
\* recovers, over the transaction's sighash, to the address of the remote key.
C15_RecoversToSigner ==
    SgReturnedOk("sign_typed_transaction") =>
        ClaimRecovered(sg.raw.sig, sg.digest.z) = Some(AddressOf(PublicKey(sg.key)))

\* C16: a successful der_to_ethers_signature over a 32-byte digest, with the
\* signer's address expected, returns r # 0, s # 0, s <= N/2 and v in
\* {27, 28}, whichever recovery id was adopted.
C16_CanonicalResult ==
    (/\ SgReturnedOk("der_to_ethers_signature")
     /\ sg.expected = Some(AddressOf(PublicKey(sg.key))))
        => /\ sg.ret.sig.r # 0 /\ sg.ret.sig.s # 0
           /\ sg.ret.sig.s <= half_n
           /\ sg.ret.sig.v \in {27, 28}

\* C17: der_to_ethers_signature returns a parsed s = N/2 unchanged with
\* v = recovery id + 27, and replaces an s > N/2 by N - s with the parity of
\* v toggled.
C17_HalfOrderBoundary ==
    SgReturnedOk("der_to_ethers_signature") =>
        /\ sg.bytes.s <= half_n =>
              /\ sg.ret.sig.s = sg.bytes.s
              /\ sg.ret.sig.v = sg.ret.recid + 27
        /\ sg.bytes.s > half_n =>
              /\ sg.ret.sig.s = curve_n - sg.bytes.s
              /\ sg.ret.sig.v % 2 # (sg.ret.recid + 27) % 2

\* the v a transaction is signed with
ClaimV(tx, v) == IF tx.variant = "Eip1559" /\ v >= 27 THEN v - 27 ELSE v

\* the least recovery id under which (r, s) recovers a key over z, 4 if none
ClaimFirstRecid(r, s, z) ==
    IF \E i \in 0..3 : RecoverEcdsa(z, r, s, i).some
    THEN CHOOSE i \in 0..3 : /\ RecoverEcdsa(z, r, s, i).some
                             /\ \A j \in 0..(i - 1) : ~RecoverEcdsa(z, r, s, j).some
    ELSE 4

\* C32: RemoteBasedSigner resolves the remote answer in a fixed order: an
\* answer that reconstructs as DER is signed with the reconstructed (r, s, v),
\* whatever its length; otherwise a 65-byte answer gives (its first 32 bytes,
\* its next 32 bytes, its last byte); otherwise a 64-byte answer gives its two
\* halves and gets v by recovery over the sighash; any other
\* answer fails with the unsupported-format error and no signed bytes.  An
\* EIP-1559 transaction is signed with v - 27 when v >= 27, another variant
\* with v unchanged.
C32_ResolutionOrder ==
    (sg.pc = "done" /\ sg.op = "sign_typed_transaction" /\ sg.bytes # NoBytes) =>
        LET der == DerToEthersSignature(sg.bytes, sg.digest, None)
            recid == ClaimFirstRecid(sg.bytes.head, sg.bytes.tail, sg.digest.z)
            SignedWith(r, s, v) ==
                /\ sg.ret.ok
                /\ sg.raw = [rlp |-> sg.tx, sig |-> Signature(r, s, ClaimV(sg.tx, v))]
        IN  IF der.ok THEN SignedWith(der.sig.r, der.sig.s, der.sig.v)
            ELSE IF sg.bytes.len = 65
            THEN SignedWith(sg.bytes.head, sg.bytes.tail, sg.bytes.last)
            ELSE IF sg.bytes.len = 64
            THEN IF recid < 4 THEN SignedWith(sg.bytes.head, sg.bytes.tail, recid + 27)
                 ELSE ~sg.ret.ok /\ sg.raw = NoRaw
            ELSE /\ ~sg.ret.ok /\ sg.raw = NoRaw
                 /\ sg.ret.err = "unsupported signature format from remote"

\* C32 witness: a DER answer of 65 bytes was reconstructed as DER and signed
\* into an EIP-1559 transaction with the parity as v.
C32_Witness ==
    /\ sg.pc = "done" /\ sg.op = "sign_typed_transaction"
    /\ sg.bytes.fmt = "der" /\ sg.bytes.len = 65
    /\ sg.tx.variant = "Eip1559"
    /\ sg.ret.ok /\ sg.raw.sig.v = 1 /\ sg.ret.recid = 1

(***************************************************************************)
(* Relay client (src/src/executor.rs)                                      *)
(*                                                                         *)
(* One call of RelayClient::submit_bundle, submit_flashbots_bundle or      *)
(* simulate_flashbots_bundle.  Text is a sequence of characters, a raw     *)
(* transaction a sequence of bytes.  The relay's answer to a POST is any   *)
(* of RlAnswers: no answer at all (transport failure) or an HTTP status    *)
(* with a body that is JSON or not.                                        *)
(***************************************************************************)
MaxBundleLen == 2

HexDigits == <<"0", "1", "2", "3", "4", "5", "6", "7",
               "8", "9", "a", "b", "c", "d", "e", "f">>

\* faulty variant: a byte below 16 is written as one digit
HexByteUnpadded(b) ==
    IF b < 16 THEN <<HexDigits[b + 1]>>
    ELSE <<HexDigits[(b \div 16) + 1], HexDigits[(b % 16) + 1]>>

\* hex::encode of one byte: two lower-case digits
HexByte(b) == <<HexDigits[(b \div 16) + 1], HexDigits[(b % 16) + 1]>>

RECURSIVE HexEncode(_)
\* hex::encode
HexEncode(bytes) ==
    IF bytes = <<>> THEN <<>>
    ELSE HexByte(Head(bytes)) \o HexEncode(Tail(bytes))

RECURSIVE LowerHex(_)
\* format!("{:x}", bn): no leading zeros, "0" for 0
LowerHex(bn) ==
    IF bn < 16 THEN <<HexDigits[bn + 1]>>
    ELSE LowerHex(bn \div 16) \o <<HexDigits[(bn % 16) + 1]>>

\* format!("0x{}", ..)
Prefixed0x(text) == <<"0", "x">> \o text

\* executor.rs 55: txs
TxsHex(signed_txs) == [i \in 1..Len(signed_txs) |-> Prefixed0x(HexEncode(signed_txs[i]))]

\* executor.rs 56-60: the params object; blockNumber only when one is given
BundleParams(signed_txs, block_number) ==
    IF block_number.some
    THEN [txs |-> TxsHex(signed_txs), blockNumber |-> Prefixed0x(LowerHex(block_number.val))]
    ELSE [txs |-> TxsHex(signed_txs)]

\* executor.rs 62-67 and 88-93: the JSON-RPC envelope
Envelope(method, signed_txs, block_number) ==
    [jsonrpc |-> "2.0", id |-> 1, method |-> method,
     params |-> <<BundleParams(signed_txs, block_number)>>]

Base64Alphabet ==
    <<"A", "B", "C", "D", "E", "F", "G", "H", "I", "J", "K", "L", "M",
      "N", "O", "P", "Q", "R", "S", "T", "U", "V", "W", "X", "Y", "Z",
      "a", "b", "c", "d", "e", "f", "g", "h", "i", "j", "k", "l", "m",
      "n", "o", "p", "q", "r", "s", "t", "u", "v", "w", "x", "y", "z",
      "0", "1", "2", "3", "4", "5", "6", "7", "8", "9", "+", "/">>

RECURSIVE Base64(_)
\* base64::encode (standard alphabet, padded)
Base64(bytes) ==
    LET A(i) == Base64Alphabet[i + 1]
        b1 == bytes[1]
        b2 == bytes[2]
        b3 == bytes[3]
    IN  IF Len(bytes) = 0 THEN <<>>
        ELSE IF Len(bytes) = 1
        THEN <<A(b1 \div 4), A((b1 % 4) * 16), "=", "=">>
        ELSE IF Len(bytes) = 2
        THEN <<A(b1 \div 4), A((b1 % 4) * 16 + (b2 \div 16)), A((b2 % 16) * 4), "=">>
        ELSE <<A(b1 \div 4), A((b1 % 4) * 16 + (b2 \div 16)),
               A((b2 % 16) * 4 + (b3 \div 64)), A(b3 % 64)>>
             \o Base64(SubSeq(bytes, 4, Len(bytes)))

\* executor.rs 36: the legacy request body
LegacyBody(bundle) == [bundle |-> Base64(bundle)]

\* anyhow errors of the client: a context text; no status and no body is
\* ever put into one
RelayErr(context) == [context |-> context, status |-> None, body |-> None]
NoErr == RelayErr("")
RlOk(v) == [ok |-> TRUE, val |-> v, err |-> NoErr]
RlErr(context) == [ok |-> FALSE, val |-> "", err |-> RelayErr(context)]

\* faulty variant: a client without a relay URL is taken for a configured one
RelayConfiguredAlways(c) == TRUE

\* executor.rs 33, 50-53, 78-81: self.relay_url is Some
RelayConfigured(c) == c.relay_url.some

\* what the relay may send back: text is the body as sent, json its value
\* when the body is a JSON document
RlBodies ==
    {[text |-> "{\"result\":\"ok\"}", json |-> Some([result |-> "ok"])],
     [text |-> "{\"error\":\"rate limited\"}", json |-> Some([error |-> "rate limited"])],
     [text |-> "Bad Gateway", json |-> None],
     [text |-> "", json |-> None]}
RlStatuses == {200, 429, 500}
NoAnswer == [sent |-> FALSE, status |-> 0, body |-> [text |-> "", json |-> None]]
RlAnswers ==
    {NoAnswer} \cup {[sent |-> TRUE, status |-> st, body |-> b] : st \in RlStatuses, b \in RlBodies}

\* reqwest Response::json
ResponseJson(answer) == answer.body.json

RlRawTxs == {<<1, 2, 3>>, <<0>>, <<171, 15>>, <<255, 16, 9, 128>>, <<>>}
RlBundles == UNION {[1..n -> RlRawTxs] : n \in 0..MaxBundleLen}
RlBlockNumbers == {None, Some(0), Some(255), Some(12345)}
RlUrls == {None, Some("http://relay")}

RelayInit ==
    /\ \E url \in RlUrls :
          \/ \E bundle \in RlRawTxs :
                rl = [pc |-> "call", op |-> "submit_bundle", relay_url |-> url,
                      bundle |-> bundle, signed_txs |-> <<>>, block_number |-> None,
                      posts |-> <<>>, answer |-> NoAnswer, ret |-> RlErr("")]
          \/ \E op \in {"submit_flashbots_bundle", "simulate_flashbots_bundle"},
                signed_txs \in RlBundles, block_number \in RlBlockNumbers :
                rl = [pc |-> "call", op |-> op, relay_url |-> url,
                      bundle |-> <<>>, signed_txs |-> signed_txs,
                      block_number |-> block_number,
                      posts |-> <<>>, answer |-> NoAnswer, ret |-> RlErr("")]
    /\ sg = [pc |-> "idle"] /\ sc = [pc |-> "idle"] /\ scanner = [pc |-> "idle"]
    /\ AutoIdle /\ SimIdle

RelayFrame == UNCHANGED <<autoVars, simVars, sg, sc, scanner>>

\* the POST and the relay's answer to it
Posted(body, answer) ==
    [rl EXCEPT !.posts = Append(@, [url |-> rl.relay_url.val, body |-> body]),
               !.answer = answer]

\* executor.rs 32-40 and 42-44: without a relay URL the stub marker; with
\* one, the POST (`.send().await`): it fails, or the relay's response has
\* arrived and its body is awaited.
SubmitBundle ==
    /\ rl.pc = "call" /\ rl.op = "submit_bundle"
    /\ IF RelayConfigured(rl)
       THEN \E answer \in RlAnswers :
               rl' = [Posted(LegacyBody(rl.bundle), answer) EXCEPT
                         !.pc = IF answer.sent THEN "response" ELSE "done",
                         !.ret = IF answer.sent THEN @ ELSE RlErr("relay post failed")]
       ELSE rl' = [rl EXCEPT !.pc = "done", !.ret = RlOk("stub")]
    /\ RelayFrame

\* executor.rs 41: `resp.text().await.unwrap_or_default()`; a body that
\* cannot be read is the empty text of RlBodies.
SubmitBundleText ==
    /\ rl.pc = "response" /\ rl.op = "submit_bundle"
    /\ rl' = [rl EXCEPT !.pc = "done", !.ret = RlOk(rl.answer.body.text)]
    /\ RelayFrame

\* executor.rs 50-71 and 78-94, up to `.send().await`: the two calls differ in
\* the method and in the error texts only
FlashbotsCall(method, post_failed) ==
    IF RelayConfigured(rl)
    THEN \E answer \in RlAnswers :
            rl' = [Posted(Envelope(method, rl.signed_txs, rl.block_number), answer) EXCEPT
                      !.pc = IF answer.sent THEN "response" ELSE "done",
                      !.ret = IF answer.sent THEN @ ELSE RlErr(post_failed)]
    ELSE rl' = [rl EXCEPT !.pc = "done",
                          !.ret = RlErr("FLASHBOTS_RELAY_URL not configured")]

\* executor.rs 72-73 and 95-96: `resp.json().await` and the return; a body
\* that cannot be read, or that is no JSON, has no JSON value
FlashbotsResponse(invalid_json) ==
    rl' = [rl EXCEPT !.pc = "done",
                     !.ret = IF ~ResponseJson(rl.answer).some THEN RlErr(invalid_json)
                             ELSE RlOk(ResponseJson(rl.answer).val)]

\* executor.rs 49-71
SubmitFlashbotsBundle ==
    /\ rl.pc = "call" /\ rl.op = "submit_flashbots_bundle"
    /\ FlashbotsCall("eth_sendBundle", "flashbots post failed")
    /\ RelayFrame

\* executor.rs 72-73
SubmitFlashbotsJson ==
    /\ rl.pc = "response" /\ rl.op = "submit_flashbots_bundle"
    /\ FlashbotsResponse("invalid json response from relay")
    /\ RelayFrame

\* executor.rs 77-94
SimulateFlashbotsBundle ==
    /\ rl.pc = "call" /\ rl.op = "simulate_flashbots_bundle"
    /\ FlashbotsCall("eth_simulateBundle", "flashbots simulate failed")
    /\ RelayFrame

\* executor.rs 95-96
SimulateFlashbotsJson ==
    /\ rl.pc = "response" /\ rl.op = "simulate_flashbots_bundle"
    /\ FlashbotsResponse("invalid json response from relay simulate")
    /\ RelayFrame

RelayNext ==
    \/ SubmitBundle
    \/ SubmitBundleText
    \/ SubmitFlashbotsBundle
    \/ SubmitFlashbotsJson
    \/ SimulateFlashbotsBundle
    \/ SimulateFlashbotsJson

RelaySpec == RelayInit /\ [][RelayNext]_vars

\* autosubmit.rs 67: `if let Ok(resp) = relay.submit_flashbots_bundle(..)`
RelayAttemptSucceeded(ret) == ret.ok

(***************************************************************************)
(* Relay client: claims                                                    *)
(***************************************************************************)
RlDone(ops) == rl.pc = "done" /\ rl.op \in ops
FlashbotsOps == {"submit_flashbots_bundle", "simulate_flashbots_bundle"}

\* the value of a hex digit, written out independently of the encoder
ClaimDigits ==
    ("0" :> 0) @@ ("1" :> 1) @@ ("2" :> 2) @@ ("3" :> 3) @@ ("4" :> 4) @@
    ("5" :> 5) @@ ("6" :> 6) @@ ("7" :> 7) @@ ("8" :> 8) @@ ("9" :> 9) @@
    ("a" :> 10) @@ ("b" :> 11) @@ ("c" :> 12) @@ ("d" :> 13) @@ ("e" :> 14) @@
    ("f" :> 15)
ClaimIsHex(text) == \A i \in 1..Len(text) : text[i] \in DOMAIN ClaimDigits
ClaimHas0x(text) == Len(text) >= 2 /\ text[1] = "0" /\ text[2] = "x"
ClaimAfter0x(text) == SubSeq(text, 3, Len(text))

RECURSIVE ClaimBytes(_)
\* the bytes a text of hex digit pairs stands for
ClaimBytes(text) ==
    IF text = <<>> THEN <<>>
    ELSE <<16 * ClaimDigits[text[1]] + ClaimDigits[text[2]]>>
         \o ClaimBytes(SubSeq(text, 3, Len(text)))

RECURSIVE ClaimNumber(_)
\* the number a text of hex digits stands for
ClaimNumber(text) ==
    IF Len(text) = 1 THEN ClaimDigits[text[1]]
    ELSE 16 * ClaimNumber(SubSeq(text, 1, Len(text) - 1)) + ClaimDigits[text[Len(text)]]

\* text is "0x" followed by the hex of the bytes
ClaimIsHexOf(text, bytes) ==
    /\ ClaimHas0x(text)
    /\ ClaimIsHex(ClaimAfter0x(text))
    /\ Len(ClaimAfter0x(text)) = 2 * Len(bytes)
    /\ ClaimBytes(ClaimAfter0x(text)) = bytes

\* text is "0x" followed by the hex of the number
ClaimIsHexOfNumber(text, n) ==
    /\ ClaimHas0x(text)
    /\ Len(text) >= 3
    /\ ClaimIsHex(ClaimAfter0x(text))
    /\ ClaimNumber(ClaimAfter0x(text)) = n

\* C18: with no relay URL configured, submit_flashbots_bundle and
\* simulate_flashbots_bundle return an error, the legacy submit_bundle
\* returns "stub", and none of the three posts anything.
C18_NoRelayNoNetwork ==
    ~rl.relay_url.some =>
        /\ rl.posts = <<>>
        /\ RlDone(FlashbotsOps) => ~rl.ret.ok
        /\ RlDone({"submit_bundle"}) => rl.ret.ok /\ rl.ret.val = "stub"

C18_Witness ==
    /\ ~rl.relay_url.some
    /\ RlDone({"simulate_flashbots_bundle"})
    /\ Len(rl.signed_txs) = 1
    /\ rl.ret.err.context = "FLASHBOTS_RELAY_URL not configured"

\* C19: with a relay URL, submit_flashbots_bundle (simulate_flashbots_bundle)
\* posts exactly one JSON-RPC envelope with method eth_sendBundle
\* (eth_simulateBundle); params[0].txs is the 0x-prefixed hex of each raw
\* transaction in bundle order; params[0].blockNumber is the 0x-prefixed hex
\* of the block number when one is given and absent otherwise; a value the
\* call returns is the relay's JSON response, unchanged, and a JSON response
\* with status 200 is returned.
C19_EnvelopeAndResponse ==
    (RlDone(FlashbotsOps) /\ rl.relay_url.some) =>
        /\ Len(rl.posts) = 1
        /\ rl.posts[1].url = rl.relay_url.val
        /\ LET req == rl.posts[1].body
               p0 == req.params[1]
           IN  /\ req.jsonrpc = "2.0"
               /\ req.method = IF rl.op = "submit_flashbots_bundle"
                               THEN "eth_sendBundle" ELSE "eth_simulateBundle"
               /\ Len(req.params) = 1
               /\ Len(p0.txs) = Len(rl.signed_txs)
               /\ \A i \in 1..Len(rl.signed_txs) : ClaimIsHexOf(p0.txs[i], rl.signed_txs[i])
               /\ IF rl.block_number.some
                  THEN /\ DOMAIN p0 = {"txs", "blockNumber"}
                       /\ ClaimIsHexOfNumber(p0.blockNumber, rl.block_number.val)
                  ELSE DOMAIN p0 = {"txs"}
        /\ rl.ret.ok => /\ rl.answer.sent /\ rl.answer.body.json.some
                        /\ rl.ret.val = rl.answer.body.json.val
        /\ (rl.answer.sent /\ rl.answer.status = 200 /\ rl.answer.body.json.some)
              => rl.ret.ok

C19_Witness ==
    /\ RlDone({"submit_flashbots_bundle"}) /\ rl.relay_url.some
    /\ rl.signed_txs = << <<1, 2, 3>>, <<0>> >>
    /\ rl.block_number = Some(12345)
    /\ rl.posts[1].body.params[1].txs
          = << <<"0", "x", "0", "1", "0", "2", "0", "3">>, <<"0", "x", "0", "0">> >>
    /\ rl.posts[1].body.params[1].blockNumber = <<"0", "x", "3", "0", "3", "9">>
    /\ rl.ret.ok /\ rl.ret.val = [result |-> "ok"]

\* C20: when the relay answers a submit or simulate request with a
\* non-success HTTP status, the client returns an error carrying the status
\* and the body, so that the Autosubmitter takes the relay attempt as failed.
C20_NonSuccessIsError ==
    (RlDone(FlashbotsOps) /\ rl.answer.sent /\ rl.answer.status \notin 200..299) =>
        /\ ~RelayAttemptSucceeded(rl.ret)
        /\ rl.ret.err.status = Some(rl.answer.status)
        /\ rl.ret.err.body = Some(rl.answer.body.text)

(***************************************************************************)
(* Scorers (src/src/sim.rs): one call of Scorer::score                     *)
(*                                                                         *)
(* The receipts cover the ranges of gas_used * effective_gas_price the     *)
(* code treats differently: up to i128::MAX, above it up to u128::MAX,     *)
(* above u128::MAX, and a product that saturates the U256.  The build      *)
(* profile (overflow checks on or off) is an input of the call.            *)
(***************************************************************************)
MaxScoreReceipts == 2

ScCosts ==
    {<<0, 5>>, <<21000, 2>>, <<I128Max, 1>>, <<I128Max + 1, 1>>, <<U128Max, 1>>,
     <<Pow(2, U256Bits - 14), Pow(2, 14)>>}
ScReceipts ==
    {[status |-> st, gas_used |-> c[1], effective_gas_price |-> c[2]] :
        st \in {0, 1}, c \in ScCosts}
ScReceiptLists == UNION {[1..n -> ScReceipts] : n \in 0..MaxScoreReceipts}
ScWeights ==
    {[revert_penalty |-> 100, gas_weight |-> 1, pnl_weight |-> 1],
     [revert_penalty |-> 0, gas_weight |-> 0, pnl_weight |-> 0],
     [revert_penalty |-> I128Max, gas_weight |-> 1, pnl_weight |-> -1],
     [revert_penalty |-> 7, gas_weight |-> 2, pnl_weight |-> 3]}
ScPnls == {None, Some(<<>>), Some(<<5>>), Some(<<5, -7, 11>>), Some(<<I128Max, I128Max>>)}
NoWeights == [revert_penalty |-> 0, gas_weight |-> 0, pnl_weight |-> 0]

ScoreInit ==
    /\ \E receipts \in ScReceiptLists, overflow_checks \in BOOLEAN :
          \/ sc = [pc |-> "call", scorer |-> "GasCostScorer", w |-> NoWeights,
                   receipts |-> receipts, expected_pnl |-> None,
                   overflow_checks |-> overflow_checks, ret |-> ScoreOf(0)]
          \/ \E w \in ScWeights, expected_pnl \in ScPnls :
                sc = [pc |-> "call", scorer |-> "ConfigurableScorer", w |-> w,
                      receipts |-> receipts, expected_pnl |-> expected_pnl,
                      overflow_checks |-> overflow_checks, ret |-> ScoreOf(0)]
    /\ sg = [pc |-> "idle"] /\ rl = [pc |-> "idle"] /\ scanner = [pc |-> "idle"]
    /\ AutoIdle /\ SimIdle

ScoreFrame == UNCHANGED <<autoVars, simVars, sg, rl, scanner>>

\* sim.rs 20-43
GasCostScorer ==
    /\ sc.pc = "call" /\ sc.scorer = "GasCostScorer"
    /\ sc' = [sc EXCEPT !.pc = "done",
                        !.ret = GasCostScorerScore(sc.receipts, sc.overflow_checks)]
    /\ ScoreFrame

\* sim.rs 58-84
ConfigurableScorer ==
    /\ sc.pc = "call" /\ sc.scorer = "ConfigurableScorer"
    /\ sc' = [sc EXCEPT !.pc = "done",
                        !.ret = ConfigurableScorerScore(sc.w, sc.receipts, sc.expected_pnl,
                                                        sc.overflow_checks)]
    /\ ScoreFrame

ScoreNext == GasCostScorer \/ ConfigurableScorer

ScoreSpec == ScoreInit /\ [][ScoreNext]_vars

(***************************************************************************)
(* Scorers: claims                                                         *)
(***************************************************************************)
ScDone(scorer) == sc.pc = "done" /\ sc.scorer = scorer
ScReverted == \E i \in 1..Len(sc.receipts) : sc.receipts[i].status = 0

\* the sum over all receipts of gas_used times effective_gas_price, exact
RECURSIVE ClaimGasSum(_, _)
ClaimGasSum(receipts, i) ==
    IF i > Len(receipts) THEN 0
    ELSE receipts[i].gas_used * receipts[i].effective_gas_price + ClaimGasSum(receipts, i + 1)

\* C24: GasCostScorer returns the sentinel i128::MIN/4 whenever some receipt
\* has status 0, and otherwise minus the sum over all receipts of gas_used
\* times effective_gas_price.
C24_SentinelOrMinusCost ==
    ScDone("GasCostScorer") =>
        /\ ~sc.ret.panicked
        /\ sc.ret.val = IF ScReverted THEN -(Pow(2, WidthBits - 1) \div 4)
                        ELSE -ClaimGasSum(sc.receipts, 1)

\* C25: for receipts without a revert the GasCostScorer result is saturated
\* to the i128 range: whatever gas_used and effective_gas_price are, the
\* computation does not overflow or wrap around and the score is never
\* positive.
C25_SaturatedNeverPositive ==
    (ScDone("GasCostScorer") /\ ~ScReverted) =>
        /\ ~sc.ret.panicked
        /\ sc.ret.val <= 0

\* the sum the ConfigurableScorer is specified to return, exact
RECURSIVE ClaimWeightedSum(_, _, _, _)
ClaimWeightedSum(w, receipts, expected_pnl, i) ==
    IF i > Len(receipts) THEN 0
    ELSE (IF receipts[i].status = 0 THEN -w.revert_penalty ELSE 0)
         - w.gas_weight * (receipts[i].gas_used * receipts[i].effective_gas_price)
         + (IF expected_pnl.some /\ i <= Len(expected_pnl.val)
            THEN w.pnl_weight * expected_pnl.val[i] ELSE 0)
         + ClaimWeightedSum(w, receipts, expected_pnl, i + 1)

\* C26: ConfigurableScorer returns the sum over all receipts i of
\* (-revert_penalty if status_i = 0) - gas_weight * gas_used_i *
\* effective_gas_price_i + pnl_weight * pnl_i, the pnl term only for positions
\* that have an expected PnL entry; a reverted receipt still contributes its
\* gas cost and does not stop the summation.
C26_WeightedSum ==
    ScDone("ConfigurableScorer") =>
        /\ ~sc.ret.panicked
        /\ sc.ret.val = ClaimWeightedSum(sc.w, sc.receipts, sc.expected_pnl, 1)

\* pnl_weight values a ConfigurableScorer could have been given instead
ClaimPnlWeights == {-1, 0, 1, 3, 1000}

\* the score of `receipts` under the sweep's ConfigurableScorer with its
\* pnl_weight replaced by p: the sum as the specification words it, in the
\* two's complement arithmetic of the i128
ClaimScoreUnder(p, receipts) ==
    WrapI128(ClaimWeightedSum([sweepArgs.scorer.w EXCEPT !.pnl_weight = p], receipts, None, 1))

\* the sweep's results with every score replaced by the score under p
ClaimRescored(p) ==
    [i \in 1..Len(results) |->
        [results[i] EXCEPT !.score = ClaimScoreUnder(p, results[i].receipts)]]

\* C40: in a sweep the scorer is handed no expected PnL: with a
\* ConfigurableScorer the score of every offset, and the outcome
\* choose_best_nonce_strategy picks, are what they would be with any other
\* pnl_weight.
C40_SweepIgnoresPnlWeight ==
    (mpc # "idle" /\ sweepArgs.scorer.kind = "ConfigurableScorer") =>
        \A p \in ClaimPnlWeights :
            /\ \A t \in TaskIds :
                  (task[t].pc = "finished" /\ task[t].ret = "ok")
                      => task[t].score = ClaimScoreUnder(p, task[t].receipts)
            /\ \A i \in 1..Len(results) :
                  results[i].score = ClaimScoreUnder(p, results[i].receipts)
            /\ mpc = "chosen" => best = BestOf(ClaimRescored(p))

\* a sweep scored by a ConfigurableScorer of pnl_weight 3 chose between two
\* outcomes with receipts
C40_Witness ==
    /\ mpc = "chosen" /\ sweepArgs.scorer.kind = "ConfigurableScorer"
    /\ sweepArgs.scorer.w.pnl_weight = 3
    /\ Len(results) = 2 /\ best.some /\ best.val.score < 0
    /\ \A i \in 1..2 : Len(results[i].receipts) = 2

(***************************************************************************)
(* Scanner (src/src/scanner.rs)                                            *)
(*                                                                         *)
(* One Scanner and the quotes it is fed.  Prices are in units of 0.5, so   *)
(* that 100.0, 100.5, 101.0 are 200, 201, 202; `threshold` is the decimal  *)
(* fraction num/den the caller writes (0.02 = 1/50) and threshold_pct the  *)
(* f64 nearest to it.  The f64 arithmetic of process_quote is computed at  *)
(* the precision of an f64, a significand of 53 bits rounded to nearest,   *)
(* ties to even, on naturals held as sequences of digits.  All values are  *)
(* far from the ends of the exponent range.                                *)
(***************************************************************************)
MaxQuotes == 4
MaxWindow == 3

\* 16.0, 17.0, 100.0, 100.5, 101.0, 102.0, 104.0
ScanPrices == {32, 34, 200, 201, 202, 204, 208}
\* 0.02 and 0.05
ScanThresholds == {[num |-> 1, den |-> 50], [num |-> 1, den |-> 20]}

Abs(x) == IF x < 0 THEN -x ELSE x

RECURSIVE SumOf(_)
\* self.prices.iter().sum::<f64>(): the prices are multiples of 0.5 and their
\* sums are exact
SumOf(prices) == IF prices = <<>> THEN 0 ELSE Head(prices) + SumOf(Tail(prices))

\* A natural number beyond the integers of the model checker (below
\* 2^(3 * LimbBits)): its three digits in base 2^LimbBits, the lowest first.
LimbBits == 27
Limb == Pow(2, LimbBits)
Wide(n) == <<n % Limb, n \div Limb, 0>>

\* a < b
WLess(a, b) ==
    IF a[3] # b[3] THEN a[3] < b[3]
    ELSE IF a[2] # b[2] THEN a[2] < b[2]
    ELSE a[1] < b[1]

\* a + b + carry
WAdd(a, b, carry) ==
    LET s1 == a[1] + b[1] + carry
        s2 == a[2] + b[2] + (s1 \div Limb)
        s3 == a[3] + b[3] + (s2 \div Limb)
    IN  <<s1 % Limb, s2 % Limb, s3 % Limb>>

\* 2a + bit
WDouble(a, bit) == WAdd(a, a, bit)

\* a - b, for a >= b
WSub(a, b) ==
    LET d1 == a[1] - b[1]
        d2 == a[2] - b[2] - (IF d1 < 0 THEN 1 ELSE 0)
        d3 == a[3] - b[3] - (IF d2 < 0 THEN 1 ELSE 0)
    IN  <<d1 % Limb, d2 % Limb, d3 % Limb>>

\* a * 2^n: the digits are split at bit LimbBits - n % LimbBits and moved up
\* by n \div LimbBits places
WShl(a, n) ==
    LET cut == Pow(2, LimbBits - (n % LimbBits))
        up == Pow(2, n % LimbBits)
        b == <<(a[1] % cut) * up,
               (a[2] % cut) * up + (a[1] \div cut),
               (a[3] % cut) * up + (a[2] \div cut)>>
    IN  [i \in 1..3 |-> IF i > n \div LimbBits THEN b[i - (n \div LimbBits)] ELSE 0]

\* number of bits of a
WLen(a) ==
    IF a[3] # 0 THEN 2 * LimbBits + BitLen(a[3])
    ELSE IF a[2] # 0 THEN LimbBits + BitLen(a[2])
    ELSE BitLen(a[1])

\* One step of the long division by den: the remainder d.r < den is doubled
\* and the next bit of the quotient is appended to d.q.
WDivStep(d, den) ==
    LET r2 == WDouble(d.r, 0)
    IN  IF WLess(r2, den)
        THEN [q |-> WDouble(d.q, 0), r |-> r2]
        ELSE [q |-> WDouble(d.q, 1), r |-> WSub(r2, den)]

\* j steps of the long division: from d.q and d.r < den to the quotient and
\* the remainder of (d.q * den + d.r) * 2^j by den.  (Each step is bound as
\* the element of a set of one, so that it is evaluated before the next.)
RECURSIVE WDivSteps(_, _, _)
WDivSteps(d, den, j) ==
    IF j = 0 THEN d
    ELSE CHOOSE last \in {WDivSteps(step, den, j - 1) : step \in {WDivStep(d, den)}} : TRUE

\* bits of the significand of an f64
F64Bits == 53

\* A non-negative f64 is m * 2^e with m = 0 or 2^52 <= m < 2^53.
F64Zero == [m |-> Wide(0), e |-> 0]

\* the element of a set of one: {F(x) : x \in {v}} has v evaluated once,
\* before F
Only(S) == CHOOSE x \in S : TRUE

\* a and b > 0 brought to the same number of bits, so that num / den is in
\* (1/2, 2) and a / b = (num / den) * 2^shift; the quotient of num * 2^j by
\* den has F64Bits bits and starts with the bit `first`
F64Align(a, b) ==
    LET la == WLen(a)
        lb == WLen(b)
        num == WShl(a, Max(la, lb) - la)
        den == WShl(b, Max(la, lb) - lb)
    IN  IF WLess(num, den)
        THEN [num |-> num, den |-> den, shift |-> la - lb, j |-> F64Bits,
              first |-> [q |-> Wide(0), r |-> num]]
        ELSE [num |-> num, den |-> den, shift |-> la - lb, j |-> F64Bits - 1,
              first |-> [q |-> Wide(1), r |-> WSub(num, den)]]

\* the quotient d.q of F64Bits bits with the remainder d.r, rounded to the
\* nearest, ties to even; a carry out of the significand moves the exponent
F64Rounded(d, den, e) ==
    LET twice == WDouble(d.r, 0)
        up == WLess(den, twice) \/ (twice = den /\ d.q[1] % 2 = 1)
        m == IF up THEN WAdd(d.q, Wide(1), 0) ELSE d.q
    IN  IF WLen(m) > F64Bits
        THEN [m |-> WShl(Wide(1), F64Bits - 1), e |-> e + 1]
        ELSE [m |-> m, e |-> e]

\* the long division of the aligned operands, then the rounding
F64DivAligned(al, e) ==
    Only({F64Rounded(d, al.den, e + al.shift - al.j) :
              d \in {WDivSteps(al.first, al.den, al.j)}})

\* The f64 nearest to (a * 2^ea) / (b * 2^eb), ties to even, for naturals a
\* and b > 0: what the f64 division returns for two f64 operands, and (with
\* b = 1) what an f64 operator returns for the exact result a * 2^ea.
F64Div(a, ea, b, eb) ==
    IF a = Wide(0) THEN F64Zero
    ELSE Only({F64DivAligned(al, ea - eb) : al \in {F64Align(a, b)}})

\* x >= y for two non-negative f64
F64Ge(x, y) ==
    IF y.m = Wide(0) THEN TRUE
    ELSE IF x.m = Wide(0) THEN FALSE
    ELSE IF x.e # y.e THEN x.e > y.e
    ELSE ~WLess(x.m, y.m)

\* the f64 of the decimal num/den: the threshold_pct handed to Scanner::new
F64Of(threshold) == F64Div(Wide(threshold.num), 0, Wide(threshold.den), 0)

\* Line 29: avg = self.prices.iter().sum::<f64>() / (self.prices.len() as f64);
\* the sum is in halves
Avg(prices) == F64Div(Wide(SumOf(prices)), -1, Wide(Len(prices)), 0)

\* Line 30: q.price - avg, without its sign (line 31 takes pct.abs()): price
\* and avg as multiples of 2^lo, their exact difference rounded to an f64
Diff(price, avg) ==
    LET lo == Min(avg.e, -1)
        x == WShl(Wide(price), -1 - lo)
        y == WShl(avg.m, avg.e - lo)
    IN  Only({F64Div(d, lo, Wide(1), 0) :
                  d \in {IF WLess(x, y) THEN WSub(y, x) ELSE WSub(x, y)}})

\* Line 30: pct = (q.price - avg) / avg, without its sign
Pct(price, avg) ==
    Only({F64Div(diff.m, diff.e, avg.m, avg.e) : diff \in {Diff(price, avg)}})

\* Lines 29-31: avg, pct and pct.abs() >= threshold_pct, each operator
\* rounding its result to an f64.  With avg = 0 pct is NaN for price = 0 (no
\* opportunity) and infinite otherwise.
Deviates(prices, price, threshold_pct) ==
    IF SumOf(prices) = 0 THEN price # 0
    ELSE Only({Only({F64Ge(pct, threshold_pct) : pct \in {Pct(price, avg)}}) :
                   avg \in {Avg(prices)}})

\* Scanner::new(window_size, threshold_pct)
ScanInit ==
    /\ \E window_size \in 0..MaxWindow, threshold \in ScanThresholds :
          scanner = [pc |-> "ready", window_size |-> window_size,
                     threshold |-> threshold,
                     threshold_pct |-> F64Of(threshold), prices |-> <<>>,
                     fed |-> <<>>, ret |-> FALSE, emitted |-> 0]
    /\ sg = [pc |-> "idle"] /\ rl = [pc |-> "idle"] /\ sc = [pc |-> "idle"]
    /\ AutoIdle /\ SimIdle

ScanFrame == UNCHANGED <<autoVars, simVars, sg, rl, sc>>

\* Scanner::process_quote(q): `fed` lists the prices of all quotes so far,
\* `ret` is whether Some(..) was returned, `emitted` counts the Some(..).
\* Vec::remove(0) panics on an empty vector (window_size = 0).
ProcessQuote ==
    /\ scanner.pc = "ready" /\ Len(scanner.fed) < MaxQuotes
    /\ \E price \in ScanPrices :
          LET full == Len(scanner.prices) = scanner.window_size
              kept == IF full THEN Tail(scanner.prices) ELSE scanner.prices
              prices == Append(kept, price)
          IN  IF full /\ scanner.prices = <<>>
              THEN scanner' = [scanner EXCEPT !.pc = "panicked",
                                              !.fed = Append(@, price)]
              ELSE \E found \in {/\ Len(prices) >= scanner.window_size
                                  /\ Deviates(prices, price, scanner.threshold_pct)} :
                      scanner' = [scanner EXCEPT !.prices = prices,
                                                 !.fed = Append(@, price),
                                                 !.ret = found,
                                                 !.emitted = IF found THEN @ + 1 ELSE @]
    /\ ScanFrame

ScanNext == ProcessQuote

ScanSpec == ScanInit /\ [][ScanNext]_vars

(***************************************************************************)
(* Scanner: claims                                                         *)
(***************************************************************************)
\* the last n elements of s (all of s when it is shorter)
ClaimLast(s, n) == IF Len(s) <= n THEN s ELSE SubSeq(s, Len(s) - n + 1, Len(s))

RECURSIVE ClaimTotal(_, _)
ClaimTotal(s, i) == IF i > Len(s) THEN 0 ELSE s[i] + ClaimTotal(s, i + 1)

\* |latest - average| >= threshold * average over the window w, with the
\* average total / Len(w), multiplied out
ClaimDeviation(w, threshold) ==
    LET latest == w[Len(w)]
        total == ClaimTotal(w, 1)
        diff == IF latest * Len(w) >= total THEN latest * Len(w) - total
                ELSE total - latest * Len(w)
    IN  diff * threshold.den >= threshold.num * total

\* C34: process_quote returns, keeping the most recent window_size prices; it
\* returns no opportunity before window_size quotes were fed, and afterwards
\* returns one exactly when the latest price deviates from the average of
\* the window by at least threshold_pct of the average; 100.0, 101.0, 100.5,
\* 104.0 with window 3 and 2 % give exactly one opportunity, 100.0, 101.0,
\* 100.5, 102.0 with 5 % give none.
C34_WindowAndThreshold ==
    scanner.fed # <<>> =>
        /\ scanner.pc = "ready"
        /\ Len(scanner.prices) <= scanner.window_size
        /\ scanner.prices = ClaimLast(scanner.fed, scanner.window_size)
        /\ Len(scanner.fed) < scanner.window_size => ~scanner.ret
        /\ Len(scanner.fed) >= scanner.window_size =>
              (scanner.ret <=> ClaimDeviation(ClaimLast(scanner.fed, scanner.window_size),
                                              scanner.threshold))
        /\ (/\ scanner.window_size = 3 /\ scanner.threshold = [num |-> 1, den |-> 50]
            /\ scanner.fed = <<200, 202, 201, 208>>) => scanner.emitted = 1
        /\ (/\ scanner.window_size = 3 /\ scanner.threshold = [num |-> 1, den |-> 20]
            /\ scanner.fed = <<200, 202, 201, 204>>) => scanner.emitted = 0

\* C34 witness: the fourth quote 104.0 was the one opportunity of the run.
C34_Witness ==
    /\ scanner.pc = "ready" /\ scanner.window_size = 3
    /\ scanner.threshold = [num |-> 1, den |-> 50]
    /\ scanner.fed = <<200, 202, 201, 208>>
    /\ scanner.prices = <<202, 201, 208>>
    /\ scanner.ret /\ scanner.emitted = 1

====
